---- MODULE Spec2Model ----
(***************************************************************************)
(* A model of the TrailBlazeApp-Scrapers event pipeline:                   *)
(*   app/base_scraper.py        BaseScraper: consolidation, final output   *)
(*   app/scrapers/aerc_scraper.py  AERCScraper: extraction, fetch, scrape  *)
(*   app/utils.py               extract_city_state_country                 *)
(*   app/llm_utility.py         LLM_Utility.extract_address_from_html      *)
(*   app/database.py, app/data_validator.py, app/main.py                   *)
(*                                                                         *)
(* Python dicts are records whose optional keys hold <<>> (key absent or   *)
(* value None) or <<v>> (value v).  The list handed to consolidate_events  *)
(* is a heap: the consolidated map aliases the first fragment of each      *)
(* ride_id, so the map is kept as ride_id -> index into that list.         *)
(***************************************************************************)
EXTENDS Integers, Sequences, FiniteSets, TLC

VARIABLES
    all_events,     \* the list object given to consolidate_events (fragment dicts, mutable)
    input0,         \* the value of that list when it was built (never written afterwards)
    returned,       \* what each consolidate_events call returned, in call order
    metrics,        \* MetricsManager.metrics of the scraper
    reordered,      \* <<>> or <<r>>: a run of a fresh scraper on a reordering of input0
    document,       \* the calendar rows of the parsed document given to extract_event_data
    extracted,      \* <<>> or <<r>>: what extract_event_data returned for document
    hashseed,       \* the string-hash seed of the running interpreter
    consolidated_events, \* the map given to create_final_output
    final_output,   \* <<>> or <<m>>: the map create_final_output returned
    cache,          \* Cache of the scraper: key -> stored content
    scraped,        \* what each scrape(url) call did, in call order
    runs,           \* what each run of main did, in run order
    llm_settings,   \* the settings LLM_Utility reads (API key, LLM_MAX_RETRIES)
    llm_responses,  \* what the LLM endpoint answers to the 1st, 2nd, ... request
    llm_call,       \* <<>> or <<r>>: what extract_address_from_html did
    location_input,   \* the argument of extract_city_state_country
    location_result,  \* <<>> or <<r>>: what extract_city_state_country returned
    link_row,   \* the anchors of the calendar row given to _extract_website_flyer, in document order
    link_result,  \* <<>> or <<r>>: what _extract_website_flyer returned
    type_text,   \* the words of calendar_row.get_text().lower() given to _determine_event_type
    type_result,  \* <<>> or <<r>>: what _determine_event_type returned
    fetched,   \* what each get_html(url) call did, in call order
    stored_at,   \* Cache of the scraper: key -> time the content was stored
    clock,  \* the time, in units of which the TTL of the cache is CacheTtl
    store,   \* the rows of the events table, in insertion order
    upserts,   \* what each insert_or_update_event call did, in call order
    validated   \* <<>> or <<r>>: what validate_database_operation returned

vars == <<all_events, input0, returned, metrics, reordered, document, extracted, hashseed,
         consolidated_events, final_output, cache, scraped, runs,
         llm_settings, llm_responses, llm_call,
         location_input, location_result,
         link_row, link_result,
         type_text, type_result,
         fetched, stored_at, clock,
         store, upserts, validated>>

consolidationVars == <<all_events, input0, returned, reordered>>
driverVars == <<document, extracted>>
outputVars == <<consolidated_events, final_output>>
scrapeVars == <<cache, scraped>>
mainVars == <<runs>>
llmVars == <<llm_settings, llm_responses, llm_call>>
locationVars == <<location_input, location_result>>
linkVars == <<link_row, link_result>>
typeVars == <<type_text, type_result>>
fetchVars == <<fetched, stored_at, clock>>
dbVars == <<store, upserts, validated>>

-----------------------------------------------------------------------------
(* Bounds *)

MaxLen == 3
MaxCalls == 2
MaxRows == 3
MaxDetailRows == 2
MaxEvents == 3
MaxScrapes == 2
MaxMainRows == 2
MaxRuns == 2
MaxRetries == 3
MaxParts == 3
MaxWords == 2
MaxAnchors == 3
MaxTokens == 3
MaxFetches == 3
MaxClock == 3
CacheTtl == 2
MaxDbCalls == 3

-----------------------------------------------------------------------------
(* Values *)

None == <<>>
Some(v) == <<v>>
NoKey == <<>>

\* A date string "2025-MM-DD", kept as its month and day fields.
Date(m, d) == [m |-> m, d |-> d]

Dates == {Date(5, 31), Date(6, 1), Date(6, 2)}

DaysInMonth == <<31, 28, 31, 30, 31, 30, 31, 31, 30, 31, 30, 31>>

RECURSIVE DaysBeforeMonth(_)
DaysBeforeMonth(m) == IF m <= 1 THEN 0 ELSE DaysInMonth[m - 1] + DaysBeforeMonth(m - 1)

\* datetime.strptime(s, "%Y-%m-%d"): the day number of the date within its year.
Strptime(date) == DaysBeforeMonth(date.m) + date.d

\* str.__lt__ on two zero-padded "YYYY-MM-DD" strings of the same year.
StrLess(a, b) == a.m < b.m \/ (a.m = b.m /\ a.d < b.d)

\* sorted(list(days))[0] and [-1] for a set of date strings.
SortedFirst(days) == CHOOSE a \in days : \A b \in days : a = b \/ StrLess(a, b)
SortedLast(days) == CHOOSE a \in days : \A b \in days : a = b \/ StrLess(b, a)

\* One entry of a fragment's distances list.
DistanceEntry(dist, date) == [distance |-> dist, date |-> date]

EmptyMap == [k \in {} |-> k]

-----------------------------------------------------------------------------
(* Fragments: the dicts extract_event_data emits and callers pass in *)

\* A fragment without multi-day keys: what the driver emits for a row that is
\* not a past event, and what the tests pass.
Bare(id, ds, dist) ==
    [ride_id |-> id, date_start |-> ds, distances |-> dist,
     is_multi_day_event |-> NoKey, is_pioneer_ride |-> NoKey,
     ride_days |-> NoKey, date_end |-> NoKey]

\* What the driver emits for a past event.
Past(id, ds) ==
    [ride_id |-> id, date_start |-> ds, distances |-> Some(<<>>),
     is_multi_day_event |-> Some(FALSE), is_pioneer_ride |-> Some(FALSE),
     ride_days |-> Some(1), date_end |-> ds]

\* A record as a consolidation of fragments dated `ds` and `de` leaves it (the map
\* holds the caller's own dicts), handed to consolidate_events again.
Classified(id, ds, de) ==
    [ride_id |-> id, date_start |-> Some(ds),
     distances |-> Some(<<DistanceEntry("50", Some(ds)), DistanceEntry("50", Some(de))>>),
     is_multi_day_event |-> Some(TRUE), is_pioneer_ride |-> Some(TRUE),
     ride_days |-> Some(3), date_end |-> Some(de)]

DateStarts == {None} \cup {Some(d) : d \in Dates}

OneDistance(ds) == Some(<<DistanceEntry("50", ds)>>)

FragmentShapes ==
    {Bare("101", ds, OneDistance(ds)) : ds \in DateStarts}
    \cup {Bare("101", ds, NoKey) : ds \in DateStarts}
    \cup {Past("101", Some(Date(6, 1))), Classified("101", Date(5, 31), Date(6, 2))}
    \cup {Bare("102", ds, OneDistance(ds)) : ds \in {None, Some(Date(6, 1))}}
    \cup {Bare("", Some(Date(6, 1)), OneDistance(Some(Date(6, 1))))}

FragmentLists == UNION {[1..n -> FragmentShapes] : n \in 0..MaxLen}

-----------------------------------------------------------------------------
(* The parts of the state a run does not use *)

ConsolidationIdle == all_events = <<>> /\ input0 = <<>> /\ returned = <<>> /\ reordered = <<>>
DriverIdle == document = <<>> /\ extracted = <<>>
OutputIdle == consolidated_events = <<>> /\ final_output = <<>>
ScrapeIdle == cache = EmptyMap /\ scraped = <<>>
MainIdle == runs = <<>>
LlmIdle ==
    /\ llm_settings = [api_key |-> FALSE, api_url |-> FALSE, max_retries |-> 0]
    /\ llm_responses = <<>>
    /\ llm_call = <<>>
LocationIdle == location_input = <<>> /\ location_result = <<>>
LinkIdle == link_row = <<>> /\ link_result = <<>>
TypeIdle == type_text = <<>> /\ type_result = <<>>
FetchIdle == fetched = <<>> /\ stored_at = EmptyMap /\ clock = 0
DbIdle == store = <<>> /\ upserts = <<>> /\ validated = <<>>

-----------------------------------------------------------------------------
(* MetricsManager *)

FreshMetrics ==
    [initial_events |-> 0, multi_day_events |-> 0, events_without_ride_id |-> 0,
     events_consolidated |-> 0, events_extracted |-> 0, event_extraction_errors |-> 0,
     llm_address_extractions_success |-> 0, llm_address_extractions_nodata |-> 0,
     llm_address_extractions_error |-> 0,
     final_events |-> 0, validated_events |-> 0, invalid_events_skipped |-> 0,
     validation_errors |-> 0, cache_hits |-> 0, cache_misses |-> 0,
     html_download_errors |-> 0, database_inserts |-> 0, database_updates |-> 0]

-----------------------------------------------------------------------------
(* BaseScraper._consolidate_events *)

\* The check of ride_id left out: every fragment is grouped under its ride_id.
HasRideIdUnchecked(event) == TRUE

\* `if not ride_id: ... continue`: a missing, None or empty ride_id is "".
HasRideId(event) == event.ride_id # ""

\* `if 'distances' in event and 'distances' in consolidated[ride_id]: extend`
MergeDistances(seed_distances, event_distances) ==
    IF event_distances # NoKey /\ seed_distances # NoKey
    THEN Some(seed_distances[1] \o event_distances[1])
    ELSE seed_distances

\* `if event.get("date_start"): days.add(...)` for a later fragment of the id.
TrackDate(days, event) ==
    IF event.date_start # None THEN days \cup {event.date_start} ELSE days

\* (end_dt - start_dt).days + 1
RideDays(date_start, date_end) == Strptime(date_end) - Strptime(date_start) + 1

\* `if event["ride_days"] >= 3`
IsPioneer(ride_days) == ride_days >= 3

\* `len(multi_day_events[ride_id]["days"]) > 1`
IsMultiDay(days) == Cardinality(days) > 1

\* The body of the first loop for all_events[i].
GroupFragment(st, i) ==
    LET event == st.events[i]
        ride_id == event.ride_id
    IN  IF ~HasRideId(event)
        THEN [st EXCEPT !.metrics.events_without_ride_id = @ + 1]
        ELSE IF ride_id \notin DOMAIN st.seed
        THEN [st EXCEPT !.seed = @ @@ (ride_id :> i),
                        !.order = Append(@, ride_id),
                        !.days = @ @@ (ride_id :> {event.date_start}),
                        !.events[i].is_pioneer_ride = Some(FALSE)]
        ELSE [st EXCEPT !.days[ride_id] = TrackDate(@, event),
                        !.events[st.seed[ride_id]].distances =
                            MergeDistances(@, event.distances)]

\* The body of the second loop for the k-th key of consolidated (insertion order).
\* sorted() of a list holding None and a string raises TypeError, after the two
\* flags of the record have been written.
FlagMultiDay(st, k) ==
    LET ride_id == st.order[k]
        s == st.seed[ride_id]
        days == st.days[ride_id]
    IN  IF ~IsMultiDay(days) THEN st
        ELSE IF None \in days
        THEN [st EXCEPT !.events[s].is_multi_day_event = Some(TRUE),
                        !.events[s].is_pioneer_ride = Some(FALSE),
                        !.raised = "TypeError"]
        ELSE LET dates == {d[1] : d \in days}
                 first == SortedFirst(dates)
                 last == SortedLast(dates)
                 ride_days == RideDays(first, last)
             IN  [st EXCEPT !.events[s].is_multi_day_event = Some(TRUE),
                            !.events[s].is_pioneer_ride = Some(IsPioneer(ride_days)),
                            !.events[s].date_start = Some(first),
                            !.events[s].date_end = Some(last),
                            !.events[s].ride_days = Some(ride_days),
                            !.metrics.multi_day_events = @ + 1]

RECURSIVE GroupAll(_, _)
GroupAll(st, i) ==
    IF i > Len(st.events) THEN st ELSE GroupAll(GroupFragment(st, i), i + 1)

RECURSIVE FlagAll(_, _)
FlagAll(st, k) ==
    IF st.raised # "none" \/ k > Len(st.order) THEN st
    ELSE FlagAll(FlagMultiDay(st, k), k + 1)

\* The whole call on the list `events` of a scraper whose counters are `m`.
ConsolidateEvents(events, m) ==
    LET st0 == [events |-> events, order |-> <<>>, seed |-> EmptyMap, days |-> EmptyMap,
                metrics |-> [m EXCEPT !.initial_events = Len(events)], raised |-> "none"]
        st == FlagAll(GroupAll(st0, 1), 1)
    IN  IF st.raised # "none" THEN st
        ELSE [st EXCEPT !.metrics.events_consolidated = Len(st.order)]

\* What the caller gets: the exception, or the map with the value each record has
\* at return (refs: the fragment of the list each record is).
Outcome(st) ==
    IF st.raised # "none"
    THEN [raised |-> st.raised, map |-> EmptyMap, refs |-> EmptyMap]
    ELSE [raised |-> "none",
          map |-> [id \in DOMAIN st.seed |-> st.events[st.seed[id]]],
          refs |-> st.seed]

Swap(list, i, j) ==
    [k \in 1..Len(list) |-> IF k = i THEN list[j] ELSE IF k = j THEN list[i] ELSE list[k]]

-----------------------------------------------------------------------------
(* Consolidation: calls of consolidate_events on one list object *)

InitConsolidate ==
    /\ all_events \in FragmentLists
    /\ input0 = all_events
    /\ returned = <<>>
    /\ metrics = FreshMetrics
    /\ reordered = <<>>
    /\ hashseed = "seed_a"
    /\ DriverIdle /\ OutputIdle /\ ScrapeIdle /\ MainIdle /\ LlmIdle /\ LocationIdle /\ LinkIdle /\ TypeIdle /\ FetchIdle /\ DbIdle

\* scraper.consolidate_events(all_events), again on the same list object.
CallConsolidate ==
    /\ Len(returned) < MaxCalls
    /\ LET st == ConsolidateEvents(all_events, metrics)
       IN  /\ all_events' = st.events
           /\ metrics' = st.metrics
           /\ returned' = Append(returned, Outcome(st))
    /\ UNCHANGED <<dbVars, fetchVars, typeVars, linkVars, locationVars, input0, reordered, driverVars, hashseed, outputVars, scrapeVars, mainVars, llmVars>>

\* A fresh scraper consolidating the same fragments with two of them exchanged.
CallConsolidateReordered ==
    /\ Len(returned) = 1
    /\ reordered = <<>>
    /\ \E i, j \in 1..Len(input0) :
        /\ i < j
        /\ reordered' = Some([list |-> Swap(input0, i, j),
                              outcome |-> Outcome(ConsolidateEvents(Swap(input0, i, j),
                                                                    FreshMetrics))])
    /\ UNCHANGED <<dbVars, fetchVars, typeVars, linkVars, locationVars, all_events, input0, returned, metrics, driverVars, hashseed, outputVars, scrapeVars,
                   mainVars, llmVars>>

Next == CallConsolidate \/ CallConsolidateReordered

Spec == InitConsolidate /\ [][Next]_vars

-----------------------------------------------------------------------------
(* app/utils.py: extract_city_state_country *)

\* A location string is kept as the list of its comma-separated parts, and a
\* part as the list of its words: "Fairgrounds, Brandon, MB" is
\* <<<<"Fairgrounds">>, <<"Brandon">>, <<"MB">>>>.
CanadianProvinces ==
    {"AB", "BC", "MB", "NB", "NL", "NS", "NT", "NU", "ON", "PE", "QC", "SK", "YT"}

\* The words w of the model with len(w) == 2 and w.isalpha().
TwoLetterWords == {"CA", "NV", "NM"} \cup CanadianProvinces

\* `(len(s) == 2 and s.isalpha()) or s in canadian_provinces`
LooksLikeState(s) == Len(s) = 1 /\ s[1] \in TwoLetterWords

\* `s in canadian_provinces`
InCanadianProvinces(s) == Len(s) = 1 /\ s[1] \in CanadianProvinces

\* s.rsplit(' ', 1)
RSplit(s) == IF Len(s) >= 2 THEN <<SubSeq(s, 1, Len(s) - 1), <<s[Len(s)]>>>> ELSE <<s>>

\* word.lower() == 'canada'
IsCanada(s) == s \in {<<"Canada">>, <<"canada">>, <<"CANADA">>}

CityStateCountry(city, state, country) == [city |-> city, state |-> state, country |-> country]

\* The final check of the function: a state of the Canadian set gives "Canada".
FinalCountry(r) ==
    IF r.state # None /\ InCanadianProvinces(r.state[1])
    THEN [r EXCEPT !.country = "Canada"] ELSE r

ExtractCityStateCountry(location_string) ==
    IF location_string = None \/ location_string[1] = <<>>
    THEN CityStateCountry(None, None, "USA")
    ELSE
    LET parts == location_string[1]
        n == Len(parts)
    IN  FinalCountry(
        IF n >= 3
        THEN LET state_split == RSplit(parts[n])
             IN  IF Len(state_split) = 2 /\ IsCanada(state_split[2])
                 THEN CityStateCountry(Some(parts[n - 1]), Some(state_split[1]), "Canada")
                 ELSE CityStateCountry(Some(parts[n - 1]), Some(parts[n]), "USA")
        ELSE IF n = 2
        THEN LET city_state_split == RSplit(parts[2])
             IN  IF Len(city_state_split) = 2 /\ LooksLikeState(city_state_split[2])
                 THEN CityStateCountry(Some(city_state_split[1]),
                                       Some(city_state_split[2]), "USA")
                 ELSE CityStateCountry(Some(parts[1]),
                                       IF LooksLikeState(parts[2]) THEN Some(parts[2])
                                       ELSE None, "USA")
        ELSE LET city_state_split == RSplit(parts[1])
             IN  IF Len(city_state_split) = 2
                 THEN IF LooksLikeState(city_state_split[2])
                      THEN CityStateCountry(Some(city_state_split[1]),
                                            Some(city_state_split[2]), "USA")
                      ELSE CityStateCountry(Some(parts[1]), None, "USA")
                 ELSE IF LooksLikeState(parts[1])
                      THEN CityStateCountry(None, Some(parts[1]), "USA")
                      ELSE CityStateCountry(Some(parts[1]), None, "USA"))

-----------------------------------------------------------------------------
(* AERCScraper.extract_event_data *)

\* The tr elements of a table.detailData, by what the walk of _extract_details
\* tests in them:
\*   "Distances"       the text "Distances : 50"
\*   "DistancesDated"  the text "Distances : 50 (Jun 1), 50 (Jun 2)"
\*   "Results"         an anchor whose href holds "rides-ride-result"
\*   "RideManager"     the text "Ride Manager : Pat"
TrKinds == {"Distances", "DistancesDated", "Results", "RideManager"}

\* The details part of a calendar row:
\*   tr      "missing": no details tr; "no_table": a details tr without
\*           table.detailData; "table": a details tr with the table
\*   marker  a span.details whose text holds "* Results *"
\*   rows    the tr elements of the table, in document order
Details(tr, marker, rows) == [tr |-> tr, marker |-> marker, rows |-> rows]

DetailShapes ==
    {Details(tr, m, <<>>) : tr \in {"missing", "no_table"}, m \in BOOLEAN}
    \cup {Details("table", FALSE, rows) :
            rows \in UNION {[1..n -> TrKinds] : n \in 0..MaxDetailRows}}

\* What LLM_Utility.extract_address_from_html does for a row: it returns a dict
\* ("data"), returns None ("nodata"), or raises the exception named.
Llm(outcome, data) == [outcome |-> outcome, data |-> data]

LlmData(address, city, state, zip_code) ==
    [address |-> address, city |-> city, state |-> state, zip_code |-> zip_code]

NoData == LlmData(None, None, None, None)

LlmFailures == {"LLMAPIError", "LLMContentError", "LLMJsonParsingError", "RuntimeError"}

LlmShapes ==
    {Llm("data", LlmData(Some(<<<<"12", "Main", "St">>>>), Some(<<"Anytown">>),
                         Some(<<"NV">>), Some("90210"))),
     Llm("data", LlmData(None, None, Some(<<"NV">>), None)),
     Llm("nodata", NoData)}
    \cup {Llm(e, NoData) : e \in LlmFailures}

\* A div.calendarRow of the document, by what the extractors find in it:
\*   span      the title span: "tag": it has a tag attribute, ride_id; "onclick":
\*             no tag, an onclick holding rideID<ride_id>; "text": neither;
\*             "missing": there is no title span
\*   name      the text of the title span
\*   region    the text of td.region (None: no cell)
\*   date      the parsed text of td.bold (None: no cell, or text that does not parse)
\*   location  "jumpy": in the second tr.fix-jumpy; "details": in a td of the
\*             "Location :" row of table.detailData; "details_no_td": that row
\*             holds no td; "none": nowhere
\*   details   the details part of the row
\*   llm       what LLM_Utility.extract_address_from_html does for the row
Row(ride_id, span, name, region, date, location, details, llm) ==
    [ride_id |-> ride_id, span |-> span, name |-> name, region |-> region,
     date |-> date, location |-> location, details |-> details, llm |-> llm]

Upcoming == Details("table", FALSE, <<"Distances", "RideManager">>)
Finished == Details("table", FALSE, <<"RideManager", "Results">>)

RowShapes ==
    {Row("101", "tag", "Mojave", Some("W"), Some(Date(6, 1)), "jumpy", Upcoming,
         Llm("nodata", NoData)),
     Row("101", "tag", "Mojave", Some("W"), Some(Date(6, 2)), "details", Upcoming,
         Llm("data", LlmData(None, None, Some(<<"NV">>), None))),
     Row("102", "tag", "Pueblo", None, None, "none", Upcoming,
         Llm("LLMAPIError", NoData)),
     Row("102", "tag", "Pueblo", Some("SW"), Some(Date(5, 31)), "jumpy", Finished,
         Llm("RuntimeError", NoData)),
     Row("", "missing", "", Some("W"), Some(Date(6, 1)), "jumpy", Upcoming,
         Llm("nodata", NoData)),
     Row("102", "tag", "Pueblo", Some("SW"), Some(Date(6, 1)), "details_no_td", Upcoming,
         Llm("nodata", NoData)),
     Row("", "text", "Mojave", Some("W"), Some(Date(6, 1)), "jumpy", Upcoming,
         Llm("nodata", NoData))}

Documents == UNION {[1..n -> RowShapes] : n \in 0..MaxRows}

\* Every kind of title span, region, date, location, details part and LLM
\* outcome a single row can combine (the "Location :" row lives in the table).
AllRows ==
    {r \in {Row(span.ride_id, span.kind, span.name, region, date, location, details, llm) :
                span \in {[kind |-> "tag", ride_id |-> "101", name |-> "Mojave"],
                          [kind |-> "onclick", ride_id |-> "102", name |-> "Pueblo"],
                          [kind |-> "text", ride_id |-> "", name |-> "Mojave"],
                          [kind |-> "missing", ride_id |-> "", name |-> ""]},
                region \in {None, Some("W")},
                date \in {None, Some(Date(6, 1))},
                location \in {"jumpy", "details", "details_no_td", "none"},
                details \in DetailShapes,
                llm \in LlmShapes} :
        r.location \in {"details", "details_no_td"} => r.details.tr = "table"}

\* `except (AttributeError, ValueError, TypeError)` around the body of the row loop.
CaughtByDriver == {"AttributeError", "ValueError", "TypeError"}

\* `except (AttributeError, ValueError, TypeError)` in _extract_region_date_location.
CaughtByLocation == {"AttributeError", "ValueError", "TypeError"}

\* _extract_name_and_id: `raise ValueError("Could not find ride name and ID")`.
NameAndIdRaises(row) == IF row.span = "missing" THEN "ValueError" ELSE "none"

\* str(hash(text) % 10000) in a process whose string hashing is seeded with
\* `seed`: the seed is drawn when the interpreter starts.
HashSeeds == {"seed_a", "seed_b"}

HashMod10000(text, seed) ==
    CASE text = "Mojave" /\ seed = "seed_a" -> "4821"
      [] text = "Mojave" /\ seed = "seed_b" -> "377"
      [] text = "Pueblo" /\ seed = "seed_a" -> "9050"
      [] text = "Pueblo" /\ seed = "seed_b" -> "2216"
      [] OTHER -> "0"

\* f"unknown_{n}"
Unknown(n) ==
    CASE n = "4821" -> "unknown_4821"
      [] n = "377" -> "unknown_377"
      [] n = "9050" -> "unknown_9050"
      [] n = "2216" -> "unknown_2216"
      [] OTHER -> "unknown_0"

\* _extract_name_and_id: the ride_id of a row that has a title span.
ExtractRideId(row) ==
    IF row.span \in {"tag", "onclick"} THEN row.ride_id
    ELSE Unknown(HashMod10000(row.name, hashseed))

\* _extract_region_date_location: `location_row.find_all("td")[-1]` on a row
\* without td is an IndexError, which the function's except clause lets through.
RegionDateLocationRaises(row) ==
    LET e == IF row.location = "details_no_td" THEN "IndexError" ELSE "none"
    IN  IF e \in CaughtByLocation THEN "none" ELSE e

\* The location text the model's rows hold: "Ridgecrest, CA" in the second
\* tr.fix-jumpy, "Fairgrounds, Brandon, MB" in the "Location :" row.
JumpyPlace == <<<<"Ridgecrest">>, <<"CA">>>>
DetailsPlace == <<<<"Fairgrounds">>, <<"Brandon">>, <<"MB">>>>

\* _extract_region_date_location: the location_name it returns.
LocationName(row) ==
    CASE row.location = "jumpy" -> Some(JumpyPlace)
      [] row.location = "details" -> Some(DetailsPlace)
      [] OTHER -> None

\* A loop body whose LLM block lets the exception of the call through.
RowRaisesThroughLlm(row) ==
    IF NameAndIdRaises(row) # "none" THEN NameAndIdRaises(row)
    ELSE IF RegionDateLocationRaises(row) # "none" THEN RegionDateLocationRaises(row)
    ELSE IF row.llm.outcome \in LlmFailures THEN row.llm.outcome
    ELSE "none"

\* The exception the body of the loop ends with for `row` ("none": it appends).
RowRaises(row) ==
    IF NameAndIdRaises(row) # "none" THEN NameAndIdRaises(row)
    ELSE RegionDateLocationRaises(row)

\* _find_details_elements: whether a table is returned, and the is_past flag.
FindDetailsElements(details) ==
    [table |-> details.tr = "table",
     is_past |-> details.tr = "no_table" /\ details.marker]

\* _parse_distances: the entries a Distances row appends; an entry is dated
\* default_date unless its text names a date of its own.
ParseDistances(kind, default_date) ==
    IF kind = "DistancesDated"
    THEN <<DistanceEntry("50", Some(Date(6, 1))), DistanceEntry("50", Some(Date(6, 2)))>>
    ELSE <<DistanceEntry("50", default_date)>>

\* The body of the loop of _extract_details for one tr of the table.
DetailRow(d, kind, default_date) ==
    IF kind = "Results" THEN [d EXCEPT !.is_past = TRUE]
    ELSE IF d.is_past /\ kind \in {"Distances", "DistancesDated"} THEN d
    ELSE IF kind = "RideManager" THEN [d EXCEPT !.ride_manager = Some("Pat")]
    ELSE [d EXCEPT !.distances = @ \o ParseDistances(kind, default_date)]

RECURSIVE DetailRows(_, _, _, _)
DetailRows(d, rows, i, default_date) ==
    IF i > Len(rows) THEN d
    ELSE DetailRows(DetailRow(d, rows[i], default_date), rows, i + 1, default_date)

\* A walk that returns what it collected.
KeepDistances(d) == d

\* The end of _extract_details: `if is_past: details["distances"] = []`.
ClearPastDistances(d) == IF d.is_past THEN [d EXCEPT !.distances = <<>>] ELSE d

\* _extract_details(calendar_row): the details dict (its distances and
\* ride_manager keys) and the is_past flag.
ExtractDetails(row) ==
    LET found == FindDetailsElements(row.details)
        d0 == [distances |-> <<>>, ride_manager |-> None, is_past |-> found.is_past]
    IN  IF ~found.table THEN d0
        ELSE ClearPastDistances(DetailRows(d0, row.details.rows, 1, row.date))

\* `x or y` on two optional strings.
Or(x, y) == IF x # None THEN x ELSE y

\* The dict the loop appends for `row`: the basic keys, the details written over
\* them, the defaults of a past event, the city, state and country of the
\* location text, and what the LLM returned written over those.
RowRecord(row) ==
    LET d == ExtractDetails(row)
        location_name == LocationName(row)
        heuristic == ExtractCityStateCountry(location_name)
        llm == IF row.llm.outcome = "data" THEN row.llm.data ELSE NoData
        basic == Bare(ExtractRideId(row), row.date, Some(d.distances))
        classified == IF d.is_past
                      THEN [basic EXCEPT !.is_multi_day_event = Some(FALSE),
                                         !.is_pioneer_ride = Some(FALSE),
                                         !.ride_days = Some(1),
                                         !.date_end = row.date]
                      ELSE basic
    IN  classified @@
        [name |-> Some(row.name), region |-> row.region,
         ride_manager |-> d.ride_manager,
         location_name |-> IF llm.address # None THEN llm.address ELSE location_name,
         city |-> Or(llm.city, heuristic.city),
         state |-> Or(llm.state, heuristic.state),
         country |-> heuristic.country,
         address |-> llm.address, zip_code |-> llm.zip_code]

\* The counter the LLM block of the loop increments: every exception of the call
\* is caught there.
LlmCounter(row) ==
    CASE row.llm.outcome = "data" -> "llm_address_extractions_success"
      [] row.llm.outcome = "nodata" -> "llm_address_extractions_nodata"
      [] OTHER -> "llm_address_extractions_error"

\* The body of the loop for calendar_rows[i].
ExtractRow(st, i) ==
    LET row == st.rows[i]
        e == RowRaises(row)
    IN  IF e = "none"
        THEN [st EXCEPT !.all_events = Append(@, RowRecord(row)),
                        !.metrics[LlmCounter(row)] = @ + 1,
                        !.metrics.events_extracted = @ + 1]
        ELSE IF e \in CaughtByDriver
        THEN [st EXCEPT !.metrics.event_extraction_errors = @ + 1]
        ELSE [st EXCEPT !.raised = e]

RECURSIVE ExtractAll(_, _)
ExtractAll(st, i) ==
    IF st.raised # "none" \/ i > Len(st.rows) THEN st
    ELSE ExtractAll(ExtractRow(st, i), i + 1)

\* The whole call on the rows of a document, for a scraper whose counters are `m`.
ExtractEventData(rows, m) ==
    ExtractAll([rows |-> rows, all_events |-> <<>>, metrics |-> m, raised |-> "none"], 1)

InitExtract ==
    /\ document \in Documents
    /\ extracted = <<>>
    /\ metrics = FreshMetrics
    /\ hashseed \in HashSeeds
    /\ ConsolidationIdle /\ OutputIdle /\ ScrapeIdle /\ MainIdle /\ LlmIdle /\ LocationIdle /\ LinkIdle /\ TypeIdle /\ FetchIdle /\ DbIdle

\* scraper.extract_event_data(soup)
CallExtractEventData ==
    /\ extracted = <<>>
    /\ LET st == ExtractEventData(document, metrics)
       IN  /\ metrics' = st.metrics
           /\ extracted' = Some([raised |-> st.raised,
                                 events |-> IF st.raised = "none" THEN st.all_events
                                            ELSE <<>>])
    /\ UNCHANGED <<dbVars, fetchVars, typeVars, linkVars, locationVars, consolidationVars, document, hashseed, outputVars, scrapeVars, mainVars, llmVars>>

NextExtract == CallExtractEventData

SpecExtract == InitExtract /\ [][NextExtract]_vars

\* extract_event_data on a document of one calendar row, for every row.
InitRow ==
    /\ document \in {<<row>> : row \in AllRows}
    /\ extracted = <<>>
    /\ metrics = FreshMetrics
    /\ hashseed \in HashSeeds
    /\ ConsolidationIdle /\ OutputIdle /\ ScrapeIdle /\ MainIdle /\ LlmIdle /\ LocationIdle /\ LinkIdle /\ TypeIdle /\ FetchIdle /\ DbIdle

SpecRow == InitRow /\ [][NextExtract]_vars

-----------------------------------------------------------------------------
(* app/models.py: EventDataModel; BaseScraper.validate_event_data and
   BaseScraper.create_final_output *)

\* BaseScraper.source_name of the AERC scraper.
SourceName == "AERC"

\* The fields of EventDataModel the model keeps, in the order the class declares
\* them: a field is validated after the fields declared before it.
FieldOrder ==
    <<"source", "ride_id", "name", "region", "date_start", "date_end", "location_name",
      "city", "state", "country", "ride_manager", "is_multi_day_event",
      "is_pioneer_ride", "ride_days", "distances">>

\* The fields declared without a default.
RequiredFields ==
    {"source", "ride_id", "name", "region", "date_start", "location_name", "ride_manager"}

\* The declared default of a field that has one.
FieldDefault(f) ==
    CASE f = "country" -> Some("USA")
      [] f = "is_multi_day_event" -> Some(FALSE)
      [] f = "is_pioneer_ride" -> Some(FALSE)
      [] f = "ride_days" -> Some(1)
      [] f = "distances" -> Some(<<>>)
      [] OTHER -> None

\* The value EventDataModel(**event_data) receives for field f, None when the key
\* is absent or holds None; validate_event_data writes source when it is absent.
Supplied(event_data, f) ==
    CASE f = "source" -> Some(SourceName)
      [] f \in {"ride_id", "country"} /\ f \in DOMAIN event_data -> Some(event_data[f])
      [] f \in DOMAIN event_data -> event_data[f]
      [] OTHER -> None

\* @validator('is_pioneer_ride'): `values` holds the fields validated so far.
ValidatePioneerRide(v, values) ==
    LET ride_days == IF "ride_days" \in DOMAIN values THEN values["ride_days"][1] ELSE 1
    IN  ~(v /\ ride_days < 3)

\* @validator('ride_days')
ValidateRideDays(v, values) ==
    LET is_multi_day == IF "is_multi_day_event" \in DOMAIN values
                        THEN values["is_multi_day_event"][1] ELSE FALSE
    IN  /\ ~(is_multi_day /\ v < 2)
        /\ ~(~is_multi_day /\ v # 1)

\* distances: List[Dict[str, str]]: every value of every entry is a string.
ValidateDistances(v) == \A k \in 1..Len(v) : v[k].date # None

\* The type and validator checks of field f on the supplied value v.
FieldValid(f, v, values) ==
    CASE f = "is_pioneer_ride" -> ValidatePioneerRide(v, values)
      [] f = "ride_days" -> ValidateRideDays(v, values)
      [] f = "distances" -> ValidateDistances(v)
      [] OTHER -> TRUE

\* The validation of the k-th field: a missing field takes its default without
\* its validator being called, a field that fails is left out of `values`.
ValidateField(st, event_data, k) ==
    LET f == FieldOrder[k]
        v == Supplied(event_data, f)
    IN  IF v = None
        THEN IF f \in RequiredFields THEN [st EXCEPT !.errors = @ \cup {f}]
             ELSE [st EXCEPT !.values = @ @@ (f :> FieldDefault(f))]
        ELSE IF FieldValid(f, v[1], st.values)
             THEN [st EXCEPT !.values = @ @@ (f :> v)]
             ELSE [st EXCEPT !.errors = @ \cup {f}]

RECURSIVE ValidateFields(_, _, _)
ValidateFields(st, event_data, k) ==
    IF k > Len(FieldOrder) THEN st
    ELSE ValidateFields(ValidateField(st, event_data, k), event_data, k + 1)

\* EventDataModel(**event_data): the validated fields and the fields in error.
EventDataModel(event_data) ==
    ValidateFields([values |-> EmptyMap, errors |-> {}], event_data, 1)

\* validate_event_data(event_data): the validated dict, or None (the
\* ValidationError of the model is a ValueError, which the method catches).
ValidateEventData(event_data) ==
    LET model == EventDataModel(event_data)
    IN  IF model.errors = {} THEN Some(model.values) ELSE None

\* source_name.lower()
Lower(source_name) ==
    CASE source_name = "AERC" -> "aerc"
      [] source_name = "TEST" -> "test"
      [] OTHER -> source_name

\* f"{self.source_name.lower()}_{ride_id}.json", kept as its two parts.
FileName(source_name, ride_id) == [source |-> Lower(source_name), ride_id |-> ride_id]

\* The body of the loop that leaves the skipped counter alone.
FinalOutputStepUncounted(st, k) ==
    LET event == st.items[k]
        validated_event == ValidateEventData(event)
    IN  IF validated_event # None
        THEN [st EXCEPT !.final_output =
                            (FileName(SourceName, event.ride_id) :> validated_event[1]) @@ @,
                        !.validated_count = @ + 1]
        ELSE [st EXCEPT !.metrics.validation_errors = @ + 1]

\* The body of the loop of create_final_output for the k-th item of the map.
FinalOutputStep(st, k) ==
    LET event == st.items[k]
        validated_event == ValidateEventData(event)
    IN  IF validated_event # None
        THEN [st EXCEPT !.final_output =
                            (FileName(SourceName, event.ride_id) :> validated_event[1]) @@ @,
                        !.validated_count = @ + 1]
        ELSE [st EXCEPT !.metrics.validation_errors = @ + 1,
                        !.metrics.invalid_events_skipped = @ + 1]

RECURSIVE FinalOutputLoop(_, _)
FinalOutputLoop(st, k) ==
    IF k > Len(st.items) THEN st ELSE FinalOutputLoop(FinalOutputStep(st, k), k + 1)

\* create_final_output(consolidated_events) of a scraper whose counters are `m`;
\* the map is the list of its values in insertion order, keyed by their ride_id.
CreateFinalOutput(items, m) ==
    LET st == FinalOutputLoop([items |-> items, final_output |-> EmptyMap,
                               validated_count |-> 0,
                               metrics |-> [m EXCEPT !.final_events = Len(items)]], 1)
    IN  [st EXCEPT !.metrics.final_events = Cardinality(DOMAIN st.final_output),
                   !.metrics.validated_events = st.validated_count]

\* A consolidated record with every required field, by the kind of its flags:
\*   "single"   the one fragment of an upcoming one-day event
\*   "past"     the fragment of a past event
\*   "two_day"  two fragments a day apart
\*   "pioneer"  three fragments on three consecutive days
\*   "no_region", "no_date"  a one-day event whose row had no region, no date
\*   "odd_days" a one-day record carrying ride_days = 2
OutputKinds ==
    {"single", "past", "two_day", "pioneer", "no_region", "no_date", "odd_days",
     "multi_no_days"}

OutputRecord(kind, id) ==
    LET ds == IF kind = "no_date" THEN None
              ELSE IF kind = "pioneer" THEN Some(Date(5, 31)) ELSE Some(Date(6, 1))
        dist == CASE kind = "two_day" ->
                        <<DistanceEntry("50", ds), DistanceEntry("50", Some(Date(6, 2)))>>
                  [] kind = "pioneer" ->
                        <<DistanceEntry("50", ds), DistanceEntry("50", Some(Date(6, 1))),
                          DistanceEntry("50", Some(Date(6, 2)))>>
                  [] kind = "past" -> <<>>
                  [] OTHER -> <<DistanceEntry("50", ds)>>
        basic == Bare(id, ds, Some(dist))
        flagged ==
            CASE kind = "past" ->
                    [basic EXCEPT !.is_multi_day_event = Some(FALSE),
                                  !.is_pioneer_ride = Some(FALSE),
                                  !.ride_days = Some(1), !.date_end = ds]
              [] kind = "two_day" ->
                    [basic EXCEPT !.is_multi_day_event = Some(TRUE),
                                  !.is_pioneer_ride = Some(FALSE),
                                  !.ride_days = Some(2), !.date_end = Some(Date(6, 2))]
              [] kind = "pioneer" ->
                    [basic EXCEPT !.is_multi_day_event = Some(TRUE),
                                  !.is_pioneer_ride = Some(TRUE),
                                  !.ride_days = Some(3), !.date_end = Some(Date(6, 2))]
              [] kind = "odd_days" ->
                    [basic EXCEPT !.is_pioneer_ride = Some(FALSE), !.ride_days = Some(2)]
              [] kind = "multi_no_days" ->
                    [basic EXCEPT !.is_multi_day_event = Some(TRUE),
                                  !.is_pioneer_ride = Some(FALSE)]
              [] OTHER -> [basic EXCEPT !.is_pioneer_ride = Some(FALSE)]
    IN  flagged @@
        [name |-> Some("Mojave"),
         region |-> IF kind = "no_region" THEN None ELSE Some("W"),
         ride_manager |-> Some("Pat"), location_name |-> Some(JumpyPlace),
         city |-> Some(<<"Ridgecrest">>), state |-> Some(<<"CA">>), country |-> "USA",
         address |-> None, zip_code |-> None]

\* The ride_ids of the map, in insertion order.
OutputIds == <<"101", "102", "103", "104", "105">>

\* The maps given to create_final_output: up to MaxEvents records with distinct
\* ride_ids, in insertion order.
ConsolidatedMaps ==
    UNION {{[k \in 1..n |-> OutputRecord(kinds[k], OutputIds[k])] :
                kinds \in [1..n -> OutputKinds]} : n \in 0..MaxEvents}

InitOutput ==
    /\ consolidated_events \in ConsolidatedMaps
    /\ final_output = <<>>
    /\ metrics = FreshMetrics
    /\ hashseed = "seed_a"
    /\ ConsolidationIdle /\ DriverIdle /\ ScrapeIdle /\ MainIdle /\ LlmIdle /\ LocationIdle /\ LinkIdle /\ TypeIdle /\ FetchIdle /\ DbIdle

\* scraper.create_final_output(consolidated_events)
CallCreateFinalOutput ==
    /\ final_output = <<>>
    /\ LET st == CreateFinalOutput(consolidated_events, metrics)
       IN  /\ final_output' = Some(st.final_output)
           /\ metrics' = st.metrics
    /\ UNCHANGED <<dbVars, fetchVars, typeVars, linkVars, locationVars, consolidationVars, driverVars, hashseed, consolidated_events,
                   scrapeVars, mainVars, llmVars>>

NextOutput == CallCreateFinalOutput

SpecOutput == InitOutput /\ [][NextOutput]_vars

-----------------------------------------------------------------------------
(* AERCScraper.scrape, AERCScraper.get_html and AERCScraper._fetch_event_html *)

Urls == {"https://aerc.org/calendar", "https://aerc.org/calendar?page=2"}

\* What the server does with the GET of the calendar page: the request fails
\* (network error or non-2xx status), or it answers a page, possibly empty.
GetResponses == {"fail", "<html>calendar</html>", ""}

\* What the server does with the POST to admin-ajax.php: the request fails, or
\* the body is JSON with an "html" member (the event rows, or an empty string),
\* JSON without that member, or text that is not JSON (taken as the event HTML).
PostResponses == {"fail", "json_html", "json_empty_html", "json_no_html", "text"}

Request(method, ok) == [method |-> method, ok |-> ok]

\* AERCScraper.get_html(url) with the cache `c` and the counters `m`; the key of
\* url is f"html_content_{url}", and a cached value counts only when it is truthy.
GetHtml(url, get, c, m) ==
    IF url \in DOMAIN c /\ c[url] # ""
    THEN [raised |-> "none", html |-> c[url], cache |-> c, metrics |-> m,
          requests |-> <<>>]
    ELSE IF get = "fail"
    THEN [raised |-> "HTMLDownloadError", html |-> "", cache |-> c,
          metrics |-> [m EXCEPT !.html_download_errors = @ + 1],
          requests |-> <<Request("GET", FALSE)>>]
    ELSE [raised |-> "none", html |-> get, cache |-> (url :> get) @@ c, metrics |-> m,
          requests |-> <<Request("GET", TRUE)>>]

\* AERCScraper._fetch_event_html(season_ids): the event HTML ("rows": markup with
\* the calendar rows), or None; the request is sent on every call.
FetchEventHtml(post) ==
    CASE post = "json_html" -> Some("rows")
      [] post = "text" -> Some("rows")
      [] post = "json_empty_html" -> Some("")
      [] OTHER -> None

ScrapeResult(raised, result, page, requests, c, m) ==
    [raised |-> raised, result |-> result, page |-> page, requests |-> requests,
     cache |-> c, metrics |-> m]

\* AERCScraper.scrape(url) when the server answers `get` and `post` and the event
\* HTML holds the calendar rows `rows`.  The season map of the calendar page is
\* never empty (its last fallback adds the id "0"), so the POST always follows a
\* page that was obtained.
Scrape(url, get, post, rows, c, m) ==
    LET page == GetHtml(url, get, c, m)
    IN  IF page.raised # "none"
        THEN ScrapeResult(page.raised, None, page.html, page.requests, page.cache,
                          page.metrics)
        ELSE
        LET event_html == FetchEventHtml(post)
            requests == Append(page.requests, Request("POST", post # "fail"))
        IN  IF event_html = None \/ event_html[1] = ""
            THEN ScrapeResult("none", Some(EmptyMap), page.html, requests, page.cache,
                              page.metrics)
            ELSE
            LET events == ExtractEventData(rows, page.metrics)
            IN  IF events.raised # "none"
                THEN ScrapeResult(events.raised, None, page.html, requests, page.cache,
                                  events.metrics)
                ELSE
                LET consolidated == ConsolidateEvents(events.all_events, events.metrics)
                IN  IF consolidated.raised # "none"
                    THEN ScrapeResult(consolidated.raised, None, page.html, requests,
                                      page.cache, consolidated.metrics)
                    ELSE ScrapeResult("none", Some(Outcome(consolidated).map), page.html,
                                      requests, page.cache, consolidated.metrics)

\* The event rows the server holds.
ServedDocuments == {d \in Documents : Len(d) <= 1}

InitScrape ==
    /\ document \in ServedDocuments
    /\ extracted = <<>>
    /\ cache = EmptyMap
    /\ scraped = <<>>
    /\ metrics = FreshMetrics
    /\ hashseed = "seed_a"
    /\ ConsolidationIdle /\ OutputIdle /\ MainIdle /\ LlmIdle /\ LocationIdle /\ LinkIdle /\ TypeIdle /\ FetchIdle /\ DbIdle

\* scraper.scrape(url), on the same scraper object as the calls before it.
CallScrape ==
    /\ Len(scraped) < MaxScrapes
    /\ \E url \in Urls, get \in GetResponses, post \in PostResponses :
        LET r == Scrape(url, get, post, document, cache, metrics)
        IN  /\ scraped' = Append(scraped, [url |-> url, raised |-> r.raised,
                                           result |-> r.result, page |-> r.page,
                                           requests |-> r.requests])
            /\ cache' = r.cache
            /\ metrics' = r.metrics
    /\ UNCHANGED <<dbVars, fetchVars, typeVars, linkVars, locationVars, consolidationVars, driverVars, hashseed, outputVars, mainVars, llmVars>>

NextScrape == CallScrape

SpecScrape == InitScrape /\ [][NextScrape]_vars

-----------------------------------------------------------------------------
(* app/main.py: main, one run per scraper object *)

\* The values of the consolidated map in insertion order.
ConsolidatedItems(st) == [k \in 1..Len(st.order) |-> st.events[st.seed[st.order[k]]]]

\* What a run did: the exception that ended its scraping ("none": it reached the
\* database loop), the ride_id of each extracted fragment, the consolidated
\* records, the keys of the events it ended with, and the dict of each
\* db_manager.insert_or_update_event(event_data) call.
Run(mode, raised, ride_ids, consolidated, keys, db_calls, m) ==
    [mode |-> mode, raised |-> raised, ride_ids |-> ride_ids,
     consolidated |-> consolidated, keys |-> keys, db_calls |-> db_calls, metrics |-> m]

RideIdsOf(events) == [i \in 1..Len(events) |-> events[i].ride_id]

\* --sample: parse_html, extract_event_data, consolidate_events and
\* create_final_output on the sample file, then the database loop over the
\* values of the final output.
RunSample(rows) ==
    LET events == ExtractEventData(rows, FreshMetrics)
    IN  IF events.raised # "none"
        THEN Run("sample", events.raised, <<>>, <<>>, {}, {}, events.metrics)
        ELSE
        LET consolidated == ConsolidateEvents(events.all_events, events.metrics)
        IN  IF consolidated.raised # "none"
            THEN Run("sample", consolidated.raised, RideIdsOf(events.all_events), <<>>,
                     {}, {}, consolidated.metrics)
            ELSE
            LET items == ConsolidatedItems(consolidated)
                out == CreateFinalOutput(items, consolidated.metrics)
            IN  Run("sample", "none", RideIdsOf(events.all_events), items,
                    DOMAIN out.final_output,
                    {out.final_output[key] : key \in DOMAIN out.final_output},
                    out.metrics)

\* Live mode: events = scraper.scrape(scrape_url) on a new scraper, then the
\* database loop over the values of what scrape returned.
RunUrl(url, get, post, rows) ==
    LET r == Scrape(url, get, post, rows, EmptyMap, FreshMetrics)
        events == ExtractEventData(rows, FreshMetrics)
        consolidated == ConsolidateEvents(events.all_events, events.metrics)
    IN  IF r.raised # "none"
        THEN Run("url", r.raised, <<>>, <<>>, {}, {}, r.metrics)
        ELSE IF r.result[1] = EmptyMap
        THEN Run("url", "none", <<>>, <<>>, {}, {}, r.metrics)
        ELSE Run("url", "none", RideIdsOf(events.all_events),
                 ConsolidatedItems(consolidated), DOMAIN r.result[1],
                 {r.result[1][id] : id \in DOMAIN r.result[1]}, r.metrics)

\* The documents main is run on.
MainDocuments == UNION {[1..n -> RowShapes] : n \in 0..MaxMainRows}

InitMain ==
    /\ document \in MainDocuments
    /\ extracted = <<>>
    /\ runs = <<>>
    /\ metrics = FreshMetrics
    /\ hashseed \in HashSeeds
    /\ ConsolidationIdle /\ OutputIdle /\ ScrapeIdle /\ LlmIdle /\ LocationIdle /\ LinkIdle /\ TypeIdle /\ FetchIdle /\ DbIdle

\* python -m app.main --sample
RunMainSample ==
    /\ Len(runs) < MaxRuns
    /\ \E run \in {RunSample(document)} :
        runs' = Append(runs, run) /\ metrics' = run.metrics
    /\ UNCHANGED <<dbVars, fetchVars, typeVars, linkVars, locationVars, consolidationVars, driverVars, hashseed, outputVars, scrapeVars, llmVars>>

\* python -m app.main --url <url>
RunMainUrl ==
    /\ Len(runs) < MaxRuns
    /\ \E url \in Urls, get \in {"fail", "<html>calendar</html>"},
          post \in {"fail", "json_html"} :
        \E run \in {RunUrl(url, get, post, document)} :
            runs' = Append(runs, run) /\ metrics' = run.metrics
    /\ UNCHANGED <<dbVars, fetchVars, typeVars, linkVars, locationVars, consolidationVars, driverVars, hashseed, outputVars, scrapeVars, llmVars>>

\* The next run happens in a new interpreter: its hash seed is drawn again.
StartInterpreter ==
    /\ runs # <<>>
    /\ Len(runs) < MaxRuns
    /\ hashseed' \in HashSeeds \ {hashseed}
    /\ UNCHANGED <<dbVars, fetchVars, typeVars, linkVars, locationVars, consolidationVars, driverVars, metrics, outputVars, scrapeVars, mainVars,
                   llmVars>>

NextMain == RunMainSample \/ RunMainUrl \/ StartInterpreter

SpecMain == InitMain /\ [][NextMain]_vars

-----------------------------------------------------------------------------
(* app/llm_utility.py: LLM_Utility.extract_address_from_html *)

\* What one requests.post to the endpoint leads to inside the try block:
\*   "success"        candidates text that is JSON with the four expected keys
\*   "transport"      requests.post or raise_for_status raises a RequestException
\*   "error_body"     the JSON body has an "error" member
\*   "blocked"        promptFeedback.blockReason is set
\*   "no_text"        no candidate text
\*   "text_not_json"  the candidate text is not JSON
\*   "missing_keys"   the JSON of the text lacks an expected key
\*   "body_not_json"  the HTTP body is not JSON: response.json() raises
\*   "bad_shape"      walking the body raises TypeError, KeyError or ValueError
LlmResponseKinds ==
    {"success", "transport", "error_body", "blocked", "no_text", "text_not_json",
     "missing_keys", "body_not_json", "bad_shape"}

\* The class of the exception response.json() raises on a body that is not JSON:
\* requests.exceptions.JSONDecodeError, a RequestException, since requests 2.27;
\* json.JSONDecodeError before.
RequestsLibraries == {"requests>=2.27", "requests<2.27"}

\* The exception the try block of one attempt raises ("none": it returns data).
AttemptRaises(kind, library) ==
    CASE kind = "success" -> "none"
      [] kind = "transport" -> "RequestException"
      [] kind \in {"error_body", "blocked", "no_text"} -> "LLMContentError"
      [] kind \in {"text_not_json", "missing_keys"} -> "LLMJsonParsingError"
      [] kind = "body_not_json" ->
            IF library = "requests>=2.27" THEN "RequestException" ELSE "JSONDecodeError"
      [] OTHER -> "TypeError"

\* The except clauses of the attempt, in their order: whether the exception is
\* retried while attempts remain, and what is raised when it is not.
Handle(e) ==
    CASE e \in {"LLMContentError", "LLMJsonParsingError"} -> [retry |-> FALSE, raises |-> e]
      [] e = "RequestException" -> [retry |-> TRUE, raises |-> "LLMAPIError"]
      [] e = "JSONDecodeError" -> [retry |-> FALSE, raises |-> "LLMJsonParsingError"]
      [] OTHER -> [retry |-> TRUE, raises |-> "LLMAPIError"]

LlmCall(outcome, requests, sleeps) ==
    [outcome |-> outcome, requests |-> requests, sleeps |-> sleeps]

\* `for attempt in range(config.LLM_MAX_RETRIES)` from the attempt numbered
\* `attempt` (0-based) on, after `sleeps` sleeps.
RECURSIVE Attempts(_, _, _, _, _)
Attempts(attempt, sleeps, max_retries, responses, library) ==
    IF attempt >= max_retries THEN LlmCall("LLMAPIError", attempt, sleeps)
    ELSE LET e == AttemptRaises(responses[attempt + 1], library)
         IN  IF e = "none" THEN LlmCall("data", attempt + 1, sleeps)
             ELSE IF Handle(e).retry /\ attempt < max_retries - 1
             THEN Attempts(attempt + 1, sleeps + 1, max_retries, responses, library)
             ELSE LlmCall(Handle(e).raises, attempt + 1, sleeps)

\* extract_address_from_html(html_snippet): "nodata" is `return None`.
ExtractAddressFromHtml(settings, responses, library) ==
    IF ~settings.api_key \/ ~settings.api_url THEN LlmCall("nodata", 0, 0)
    ELSE Attempts(0, 0, settings.max_retries, responses, library)

LlmSettings == [api_key : BOOLEAN, api_url : BOOLEAN, max_retries : 0..MaxRetries]

InitLlm ==
    /\ llm_settings \in LlmSettings
    /\ llm_responses \in [1..MaxRetries -> LlmResponseKinds]
    /\ llm_call = <<>>
    /\ metrics = FreshMetrics
    /\ hashseed = "seed_a"
    /\ ConsolidationIdle /\ DriverIdle /\ OutputIdle /\ ScrapeIdle /\ MainIdle /\ LocationIdle /\ LinkIdle /\ TypeIdle /\ FetchIdle /\ DbIdle

\* LLM_Utility.extract_address_from_html(html_snippet)
CallExtractAddress ==
    /\ llm_call = <<>>
    /\ \E library \in RequestsLibraries :
        llm_call' = Some(ExtractAddressFromHtml(llm_settings, llm_responses, library))
    /\ UNCHANGED <<dbVars, fetchVars, typeVars, linkVars, locationVars, consolidationVars, driverVars, metrics, hashseed, outputVars, scrapeVars,
                   mainVars, llm_settings, llm_responses>>

NextLlm == CallExtractAddress

SpecLlm == InitLlm /\ [][NextLlm]_vars

-----------------------------------------------------------------------------
(* app/utils.py: extract_city_state_country called on its own *)

\* The words location strings are written with.
LocationWords == {"Ranch", "Cityville", "CA", "SK", "Canada"}

\* A comma-separated part: 1..MaxWords words.
LocationParts == UNION {[1..n -> LocationWords] : n \in 1..MaxWords}

\* The location shapes the tests enumerate for a city and a state code: 'City, ST',
\* 'Venue, City, ST', 'City ST', 'Venue, City ST', and each followed by ', Canada'
\* or ' Canada'.
PlainShapes(city, st) ==
    {<<city, <<st>>>>, <<<<"Ranch">>, city, <<st>>>>,
     <<city \o <<st>>>>, <<<<"Ranch">>, city \o <<st>>>>}

WithCountryPart(parts) == parts \o <<<<"Canada">>>>

WithCountryWord(parts) ==
    [parts EXCEPT ![Len(parts)] = parts[Len(parts)] \o <<"Canada">>]

TestShapes(city, st) ==
    PlainShapes(city, st)
        \cup {WithCountryPart(p) : p \in PlainShapes(city, st)}
        \cup {WithCountryWord(p) : p \in PlainShapes(city, st)}

Cities == {<<"Cityville">>, <<"Maple", "Creek">>}

StateCodes == {"CA", "SK"}

\* The arguments: None, the empty string, every string of 1..MaxParts parts, and
\* the shapes of the tests.
LocationStrings ==
    {None, Some(<<>>)}
        \cup {Some(parts) : parts \in UNION {[1..n -> LocationParts] : n \in 1..MaxParts}}
        \cup {Some(parts) : parts \in UNION {TestShapes(city, st) :
                                               city \in Cities, st \in StateCodes}}

InitLocation ==
    /\ location_input \in {Some(l) : l \in LocationStrings}
    /\ location_result = <<>>
    /\ metrics = FreshMetrics
    /\ hashseed = "seed_a"
    /\ ConsolidationIdle /\ DriverIdle /\ OutputIdle /\ ScrapeIdle /\ MainIdle /\ LlmIdle /\ LinkIdle /\ TypeIdle /\ FetchIdle /\ DbIdle

\* extract_city_state_country(location_input)
CallExtractCityStateCountry ==
    /\ location_input # <<>>
    /\ location_result = <<>>
    /\ location_result' = Some(ExtractCityStateCountry(location_input[1]))
    /\ UNCHANGED <<dbVars, fetchVars, typeVars, linkVars, consolidationVars, driverVars, metrics, hashseed, outputVars, scrapeVars,
                   mainVars, llmVars, location_input>>

NextLocation == CallExtractCityStateCountry

SpecLocation == InitLocation /\ [][NextLocation]_vars

-----------------------------------------------------------------------------
(* app/scrapers/aerc_scraper.py: AERCScraper._extract_website_flyer *)

\* The lower-cased text of an anchor, by the keywords it contains.
LinkTexts == {"website", "entry", "flyer", "website entry", "directions"}

\* `"website" in link_text`
HasWebsite(text) == text \in {"website", "website entry"}

\* `any(text in link_text for text in ["entry", "flyer", "entry/flyer"])`
HasEntryFlyer(text) == text \in {"entry", "flyer", "website entry"}

\* An <a> of the row: its href (None: no href attribute, or an empty one), its
\* text, and whether it lies inside the table of class detailData.
Anchor(href, text, in_details) == [href |-> href, text |-> text, in_details |-> in_details]

\* The k-th anchor of a row links to its own URL where it has an href.
AnchorsAt(k) ==
    {Anchor(href, text, in_details) :
        href \in {None, Some(k)}, text \in LinkTexts, in_details \in BOOLEAN}

LinkRows ==
    UNION {{row \in [1..n -> UNION {AnchorsAt(k) : k \in 1..n}] :
               \A k \in 1..n : row[k] \in AnchorsAt(k)} : n \in 0..MaxAnchors}

Urls2(website_url, flyer_url) == [website_url |-> website_url, flyer_url |-> flyer_url]

\* One pass of `for link in calendar_row.find_all("a")`.
RowLinkStep(urls, link) ==
    IF link.href = None THEN urls
    ELSE IF HasWebsite(link.text) THEN [urls EXCEPT !.website_url = link.href]
    ELSE IF HasEntryFlyer(link.text) THEN [urls EXCEPT !.flyer_url = link.href]
    ELSE urls

\* One pass of `for link in details_table.find_all("a")`.
DetailsLinkStep(urls, link) ==
    IF link.href = None THEN urls
    ELSE IF urls.website_url = None /\ HasWebsite(link.text)
    THEN [urls EXCEPT !.website_url = link.href]
    ELSE IF urls.flyer_url = None /\ HasEntryFlyer(link.text)
    THEN [urls EXCEPT !.flyer_url = link.href]
    ELSE urls

RECURSIVE RowLinks(_, _, _)
RowLinks(urls, row, i) ==
    IF i > Len(row) THEN urls ELSE RowLinks(RowLinkStep(urls, row[i]), row, i + 1)

RECURSIVE DetailsLinks(_, _, _)
DetailsLinks(urls, row, i) ==
    IF i > Len(row) THEN urls
    ELSE DetailsLinks(IF row[i].in_details THEN DetailsLinkStep(urls, row[i]) ELSE urls,
                      row, i + 1)

\* _extract_website_flyer(calendar_row): find_all("a") of the row returns the
\* anchors of the details table as well, in document order.
ExtractWebsiteFlyer(row) ==
    LET scanned == RowLinks(Urls2(None, None), row, 1)
    IN  IF scanned.website_url = None \/ scanned.flyer_url = None
        THEN DetailsLinks(scanned, row, 1)
        ELSE scanned

InitLink ==
    /\ link_row \in {Some(row) : row \in LinkRows}
    /\ link_result = <<>>
    /\ metrics = FreshMetrics
    /\ hashseed = "seed_a"
    /\ ConsolidationIdle /\ DriverIdle /\ OutputIdle /\ ScrapeIdle /\ MainIdle /\ LlmIdle /\ TypeIdle /\ FetchIdle /\ DbIdle
    /\ LocationIdle

\* _extract_website_flyer(calendar_row)
CallExtractWebsiteFlyer ==
    /\ link_row # <<>>
    /\ link_result = <<>>
    /\ link_result' = Some(ExtractWebsiteFlyer(link_row[1]))
    /\ UNCHANGED <<dbVars, fetchVars, typeVars, consolidationVars, driverVars, metrics, hashseed, outputVars, scrapeVars,
                   mainVars, llmVars, locationVars, link_row>>

NextLink == CallExtractWebsiteFlyer

SpecLink == InitLink /\ [][NextLink]_vars

-----------------------------------------------------------------------------
(* app/scrapers/aerc_scraper.py: AERCScraper._determine_event_type *)

\* Strings are sequences of characters.  The lower-cased words of a row's text:
\* ld, old, ride, ctc, competitive, trail, limited, distance.
TextWords ==
    {<<"l", "d">>,
     <<"o", "l", "d">>,
     <<"r", "i", "d", "e">>,
     <<"c", "t", "c">>,
     <<"c", "o", "m", "p", "e", "t", "i", "t", "i", "v", "e">>,
     <<"t", "r", "a", "i", "l">>,
     <<"l", "i", "m", "i", "t", "e", "d">>,
     <<"d", "i", "s", "t", "a", "n", "c", "e">>}

LD == <<"l", "d">>
OLD == <<"o", "l", "d">>
CTC == <<"c", "t", "c">>
COMPETITIVE_TRAIL == <<"c", "o", "m", "p", "e", "t", "i", "t", "i", "v", "e", " ", "t", "r", "a", "i", "l">>
LIMITED_DISTANCE == <<"l", "i", "m", "i", "t", "e", "d", " ", "d", "i", "s", "t", "a", "n", "c", "e">>

\* ' '.join(words)
RECURSIVE Join(_)
Join(words) ==
    IF words = <<>> THEN <<>>
    ELSE IF Len(words) = 1 THEN words[1]
    ELSE words[1] \o <<" ">> \o Join(Tail(words))

\* text[i:i+len(pattern)] == pattern
OccursAt(pattern, text, i) ==
    /\ i + Len(pattern) - 1 <= Len(text)
    /\ \A k \in 1..Len(pattern) : text[i + k - 1] = pattern[k]

\* `pattern in text`
In(pattern, text) == \E i \in 1..Len(text) : OccursAt(pattern, text, i)

\* text.split(sep): the pieces between the occurrences of sep, left to right.
RECURSIVE SplitFrom(_, _, _, _)
SplitFrom(text, sep, start, i) ==
    IF i > Len(text) THEN <<SubSeq(text, start, Len(text))>>
    ELSE IF OccursAt(sep, text, i)
    THEN <<SubSeq(text, start, i - 1)>> \o SplitFrom(text, sep, i + Len(sep), i + Len(sep))
    ELSE SplitFrom(text, sep, start, i + 1)

Split(text, sep) == SplitFrom(text, sep, 1, 1)

\* `x in list`
InList(x, list) == \E k \in 1..Len(list) : list[k] = x

\* _determine_event_type(calendar_row), on text = calendar_row.get_text().lower()
DetermineEventType(text) ==
    IF In(COMPETITIVE_TRAIL, text) THEN "competitive_trail"
    ELSE IF In(CTC, text) THEN "competitive_trail"
    ELSE IF In(LIMITED_DISTANCE, text) THEN "limited_distance"
    ELSE IF In(LD, text) /\ ~InList(OLD, Split(text, LD)) THEN "limited_distance"
    ELSE "endurance"

\* The texts: 1..MaxTokens words.
RowTexts == UNION {[1..n -> TextWords] : n \in 1..MaxTokens}

InitType ==
    /\ type_text \in RowTexts
    /\ type_result = <<>>
    /\ metrics = FreshMetrics
    /\ hashseed = "seed_a"
    /\ ConsolidationIdle /\ DriverIdle /\ OutputIdle /\ ScrapeIdle /\ MainIdle /\ LlmIdle /\ FetchIdle /\ DbIdle
    /\ LocationIdle /\ LinkIdle

\* _determine_event_type(calendar_row)
CallDetermineEventType ==
    /\ type_text # <<>>
    /\ type_result = <<>>
    /\ type_result' = Some(DetermineEventType(Join(type_text)))
    /\ UNCHANGED <<dbVars, fetchVars, consolidationVars, driverVars, metrics, hashseed, outputVars, scrapeVars,
                   mainVars, llmVars, locationVars, linkVars, type_text>>

NextType == CallDetermineEventType

SpecType == InitType /\ [][NextType]_vars

-----------------------------------------------------------------------------
(* AERCScraper.get_html called on its own, with the TTL of app/cache.py *)

\* Cache.get: TTLCache.__getitem__ raises KeyError for a key stored CacheTtl or
\* more ago, so the cache answers with its unexpired entries only.
LiveCache(c, stored, now) ==
    [key \in {k \in DOMAIN c : now - stored[k] < CacheTtl} |-> c[key]]

InitFetch ==
    /\ cache = EmptyMap
    /\ scraped = <<>>
    /\ fetched = <<>>
    /\ stored_at = EmptyMap
    /\ clock = 0
    /\ metrics = FreshMetrics
    /\ hashseed = "seed_a"
    /\ ConsolidationIdle /\ DriverIdle /\ OutputIdle /\ MainIdle /\ LlmIdle /\ DbIdle
    /\ LocationIdle /\ LinkIdle /\ TypeIdle

\* scraper.get_html(url), on the same scraper object as the calls before it.
\* Cache.set stores the content with the time of the call; TTLCache.__setitem__
\* drops the expired entries first.
CallGetHtml ==
    /\ Len(fetched) < MaxFetches
    /\ \E url \in Urls, get \in GetResponses :
        \E r \in {GetHtml(url, get, LiveCache(cache, stored_at, clock), metrics)} :
            LET stores == r.raised = "none" /\ r.requests # <<>>
            IN  /\ fetched' = Append(fetched, [url |-> url, raised |-> r.raised,
                                               html |-> r.html, requests |-> r.requests,
                                               at |-> clock])
                /\ cache' = IF stores THEN r.cache ELSE cache
                /\ stored_at' =
                       IF stores
                       THEN [key \in DOMAIN r.cache |->
                                IF key = url THEN clock ELSE stored_at[key]]
                       ELSE stored_at
                /\ metrics' = r.metrics
    /\ UNCHANGED <<dbVars, consolidationVars, driverVars, hashseed, outputVars, scraped, mainVars,
                   llmVars, locationVars, linkVars, typeVars, clock>>

\* Time passes between two calls.
Tick ==
    /\ clock < MaxClock
    /\ clock' = clock + 1
    /\ UNCHANGED <<dbVars, consolidationVars, driverVars, metrics, hashseed, outputVars, scrapeVars,
                   mainVars, llmVars, locationVars, linkVars, typeVars, fetched, stored_at>>

NextFetch == CallGetHtml \/ Tick

SpecFetch == InitFetch /\ [][NextFetch]_vars

-----------------------------------------------------------------------------
(* app/database.py: DatabaseManager; app/data_validator.py: DataValidator *)

\* The (source, ride_id) pairs of the events written to the database.
DbKeys == {<<"AERC", "101">>, <<"AERC", "102">>, <<"SERA", "101">>}

\* The values an event carries besides its key: its name and its distances.
DbNames == {"Mojave", "Tevis"}

DbDistances(name) ==
    IF name = "Mojave" THEN <<>> ELSE <<DistanceEntry("50", Some(Date(6, 1)))>>

DbEvent(key, name) ==
    [source |-> key[1], ride_id |-> key[2], name |-> name, distances |-> DbDistances(name)]

DbEvents == {DbEvent(key, name) : key \in DbKeys, name \in DbNames}

\* psycopg2.extras.Json(value): the value in its serialized form.
Json(value) == [jsonb |-> value]

\* json.loads of a serialized value.
JsonLoads(text) == text.jsonb

\* The row the parameters of the INSERT and UPDATE statements describe.
RowOf(event_data) ==
    [source |-> event_data.source, ride_id |-> event_data.ride_id,
     name |-> event_data.name, distances |-> Json(event_data.distances)]

Matches(row, source, ride_id) == row.source = source /\ row.ride_id = ride_id

\* An existence test that finds no row.
EventExistsNever(rows, source, ride_id) == FALSE

\* _event_exists: SELECT EXISTS(SELECT 1 FROM events WHERE source = %s AND ride_id = %s)
EventExists(rows, source, ride_id) ==
    \E i \in 1..Len(rows) : Matches(rows[i], source, ride_id)

\* _insert_event: INSERT INTO events (...) VALUES (...)
InsertEvent(rows, event_data) == Append(rows, RowOf(event_data))

\* _update_event: UPDATE events SET ... WHERE source = %s AND ride_id = %s
UpdateEvent(rows, event_data) ==
    [i \in 1..Len(rows) |->
        IF Matches(rows[i], event_data.source, event_data.ride_id)
        THEN RowOf(event_data) ELSE rows[i]]

\* insert_or_update_event(event_data) with the scraper of the run linked to the
\* manager (main.py:115).  When the statement fails _execute_query rolls back and
\* raises before any counter is incremented.
InsertOrUpdateEvent(rows, m, event_data, statement_fails) ==
    LET exists == EventExists(rows, event_data.source, event_data.ride_id)
        op == IF exists THEN "update" ELSE "insert"
    IN  IF statement_fails
        THEN [rows |-> rows, metrics |-> m, op |-> op, raised |-> "Exception"]
        ELSE IF exists
        THEN [rows |-> UpdateEvent(rows, event_data),
              metrics |-> [m EXCEPT !.database_updates = @ + 1],
              op |-> op, raised |-> "none"]
        ELSE [rows |-> InsertEvent(rows, event_data),
              metrics |-> [m EXCEPT !.database_inserts = @ + 1],
              op |-> op, raised |-> "none"]

\* get_event(source, ride_id): the first row of the SELECT as a dict, the JSONB
\* columns parsed; None when there is no row.
GetEvent(rows, source, ride_id) ==
    LET found == {i \in 1..Len(rows) : Matches(rows[i], source, ride_id)}
    IN  IF found = {} THEN None
        ELSE LET row == rows[CHOOSE i \in found : \A j \in found : i <= j]
             IN  Some([source |-> row.source, ride_id |-> row.ride_id, name |-> row.name,
                       distances |-> JsonLoads(row.distances)])

\* _compare_event_data(expected_data, stored_data): no discrepancy.
CompareEventData(expected_data, stored_data) ==
    \A key \in DOMAIN expected_data :
        key \in DOMAIN stored_data /\ expected_data[key] = stored_data[key]

ExpectedOperations == {"insert", "update", "insert_or_update", "delete"}

\* validate_database_operation(event_data, expected_operation): the success flag.
ValidateDatabaseOperation(rows, event_data, expected_operation) ==
    LET stored_event == GetEvent(rows, event_data.source, event_data.ride_id)
    IN  IF expected_operation \in {"insert", "insert_or_update"} /\ stored_event = None
        THEN FALSE
        ELSE IF expected_operation = "delete" /\ stored_event # None
        THEN FALSE
        ELSE IF expected_operation \in {"insert", "update", "insert_or_update"}
                /\ stored_event # None
        THEN CompareEventData(event_data, stored_event[1])
        ELSE TRUE

InitDb ==
    /\ store = <<>>
    /\ upserts = <<>>
    /\ validated = <<>>
    /\ metrics = FreshMetrics
    /\ hashseed = "seed_a"
    /\ ConsolidationIdle /\ DriverIdle /\ OutputIdle /\ ScrapeIdle /\ MainIdle /\ LlmIdle
    /\ LocationIdle /\ LinkIdle /\ TypeIdle /\ FetchIdle

\* db_manager.insert_or_update_event(event_data)
CallInsertOrUpdateEvent ==
    /\ Len(upserts) < MaxDbCalls
    /\ validated = <<>>
    /\ \E event_data \in DbEvents, statement_fails \in BOOLEAN :
        \E r \in {InsertOrUpdateEvent(store, metrics, event_data, statement_fails)} :
            /\ store' = r.rows
            /\ metrics' = r.metrics
            /\ upserts' = Append(upserts, [event_data |-> event_data, op |-> r.op,
                                             raised |-> r.raised])
    /\ UNCHANGED <<consolidationVars, driverVars, hashseed, outputVars, scrapeVars, mainVars,
                   llmVars, locationVars, linkVars, typeVars, fetchVars, validated>>

\* data_validator.validate_database_operation(event_data, expected_operation);
\* _validate_event_data raises ValidationError for data the schema rejects.
CallValidateDatabaseOperation ==
    /\ validated = <<>>
    /\ \E event_data \in DbEvents, expected_operation \in ExpectedOperations,
          schema_valid \in BOOLEAN :
        validated' =
            Some([event_data |-> event_data, expected_operation |-> expected_operation,
                  raised |-> IF schema_valid THEN "none" ELSE "ValidationError",
                  success |-> schema_valid
                              /\ ValidateDatabaseOperation(store, event_data,
                                                           expected_operation)])
    /\ UNCHANGED <<consolidationVars, driverVars, metrics, hashseed, outputVars, scrapeVars,
                   mainVars, llmVars, locationVars, linkVars, typeVars, fetchVars,
                   store, upserts>>

NextDb == CallInsertOrUpdateEvent \/ CallValidateDatabaseOperation

SpecDb == InitDb /\ [][NextDb]_vars

-----------------------------------------------------------------------------
(* Vocabulary of the properties *)

RideIds == {"101", "102"}

\* The positions of the fragments of `list` that carry ride_id `id`.
GroupOf(list, id) == {i \in 1..Len(list) : list[i].ride_id = id}

\* The valid date_start values the fragments of `id` carry.
ValidDates(list, id) ==
    {list[i].date_start[1] : i \in {j \in GroupOf(list, id) : list[j].date_start # None}}

\* The calendar: the day of the year 2025 each date of the model falls on.
CalendarDay(date) ==
    CASE date = Date(5, 31) -> 151
      [] date = Date(6, 1) -> 152
      [] date = Date(6, 2) -> 153

Earliest(dates) == CHOOSE a \in dates : \A b \in dates : CalendarDay(a) <= CalendarDay(b)
Latest(dates) == CHOOSE a \in dates : \A b \in dates : CalendarDay(a) >= CalendarDay(b)

\* The list a distances key holds ([] when the key is absent).
DistanceList(fragment) == IF fragment.distances = NoKey THEN <<>> ELSE fragment.distances[1]

Occurrences(list, e) == Cardinality({i \in 1..Len(list) : list[i] = e})

RECURSIVE SumOver(_, _)
SumOver(f, S) ==
    IF S = {} THEN 0
    ELSE LET x == CHOOSE y \in S : TRUE IN f[x] + SumOver(f, S \ {x})

\* The first call returned a map.
FirstReturned == returned # <<>> /\ returned[1].raised = "none"

-----------------------------------------------------------------------------
(* C1: for every ride_id whose fragments carry at least two distinct valid
   date_start values, the map of consolidate_events holds one record for it with
   is_multi_day_event = true, date_start = the earliest of those dates, date_end =
   the latest, and ride_days = the days between them + 1. *)
C1_MultiDayRecord ==
    returned # <<>> =>
        \A id \in RideIds :
            Cardinality(ValidDates(input0, id)) >= 2 =>
                /\ returned[1].raised = "none"
                /\ id \in DOMAIN returned[1].map
                /\ LET r == returned[1].map[id]
                       lo == Earliest(ValidDates(input0, id))
                       hi == Latest(ValidDates(input0, id))
                   IN  /\ r.is_multi_day_event = Some(TRUE)
                       /\ r.date_start = Some(lo)
                       /\ r.date_end = Some(hi)
                       /\ r.ride_days = Some(CalendarDay(hi) - CalendarDay(lo) + 1)

(* C2: in every map consolidate_events returns, is_pioneer_ride is true exactly
   when the record's ride_days is >= 3. *)
C2_PioneerIffThreeDays ==
    \A k \in 1..Len(returned) :
        \A id \in DOMAIN returned[k].map :
            LET r == returned[k].map[id]
            IN  (r.is_pioneer_ride = Some(TRUE))
                    <=> (r.ride_days # NoKey /\ r.ride_days[1] >= 3)

(* C3: every record of the returned map has is_multi_day_event and ride_days set,
   with ride_days = 1 iff is_multi_day_event is false and ride_days >= 2 iff it
   is true. *)
C3_FlagsSetAndConsistent ==
    FirstReturned =>
        \A id \in DOMAIN returned[1].map :
            LET r == returned[1].map[id]
            IN  /\ r.is_multi_day_event # NoKey
                /\ r.ride_days # NoKey
                /\ (r.ride_days[1] = 1) <=> (r.is_multi_day_event[1] = FALSE)
                /\ (r.ride_days[1] >= 2) <=> (r.is_multi_day_event[1] = TRUE)

(* C4: on a list whose date_start values are all valid, every record of the
   returned map has a date_end with date_end >= date_start and
   ride_days = (date_end - date_start in days) + 1. *)
C4_DateEndAndSpan ==
    (returned # <<>> /\ \A i \in 1..Len(input0) : input0[i].date_start # None) =>
        /\ returned[1].raised = "none"
        /\ \A id \in DOMAIN returned[1].map :
            LET r == returned[1].map[id]
            IN  /\ r.date_end # None
                /\ r.date_start # None
                /\ CalendarDay(r.date_end[1]) >= CalendarDay(r.date_start[1])
                /\ r.ride_days =
                       Some(CalendarDay(r.date_end[1]) - CalendarDay(r.date_start[1]) + 1)

(* C5: for every ride_id the distances list of the consolidated record is the
   union, duplicates kept, of the distances lists of all fragments of the id:
   its length is the sum of their lengths and every entry of every fragment is
   in it. *)
C5_DistancesUnion ==
    FirstReturned =>
        \A id \in DOMAIN returned[1].map :
            LET merged == DistanceList(returned[1].map[id])
                group == GroupOf(input0, id)
            IN  /\ Len(merged) = SumOver([i \in group |-> Len(DistanceList(input0[i]))], group)
                /\ \A i \in group :
                       \A n \in 1..Len(DistanceList(input0[i])) :
                           \E m \in 1..Len(merged) : merged[m] = DistanceList(input0[i])[n]

(* C6: calling consolidate_events twice in a row on the same list object returns
   the second time a map identical to the first result. *)
C6_SecondCallSameMap ==
    Len(returned) >= 2 => returned[2].raised = returned[1].raised
                          /\ returned[2].map = returned[1].map

\* Two results agree on the fields a reordering is said to keep.
SameConsolidation(a, b) ==
    /\ a.raised = "none" <=> b.raised = "none"
    /\ DOMAIN a.map = DOMAIN b.map
    /\ \A id \in DOMAIN a.map \cap DOMAIN b.map :
        LET x == a.map[id]
            y == b.map[id]
        IN  /\ x.is_multi_day_event = y.is_multi_day_event
            /\ x.is_pioneer_ride = y.is_pioneer_ride
            /\ x.ride_days = y.ride_days
            /\ x.date_start = y.date_start
            /\ x.date_end = y.date_end
            /\ \A e \in {DistanceList(x)[n] : n \in 1..Len(DistanceList(x))}
                        \cup {DistanceList(y)[n] : n \in 1..Len(DistanceList(y))} :
                   Occurrences(DistanceList(x), e) = Occurrences(DistanceList(y), e)

(* C7: two orderings of the same fragments give equal maps (keys, flags,
   ride_days, dates, distances entries), and consolidate_events succeeds for both
   or for neither. *)
C7_OrderIndependent ==
    (returned # <<>> /\ reordered # <<>>) =>
        SameConsolidation(returned[1], reordered[1].outcome)

(* C8: consolidate_events returns a map without raising for every list of
   fragments, also when fragments of one ride_id mix a missing date_start with a
   present one. *)
C8_NeverRaises ==
    \A k \in 1..Len(returned) : returned[k].raised = "none"

\* The list without the fragments that lack a ride_id.
WithRideId(list) == SelectSeq(list, LAMBDA e : e.ride_id # "")

NumWithoutRideId(list) == Cardinality({i \in 1..Len(list) : list[i].ride_id = ""})

(* C9: a fragment without ride_id is left out of the consolidated map: the key
   set is the set of non-empty ride_id values of the input, the result is the one
   the list without such fragments gives, the fragment itself is not touched, and
   each such fragment adds 1 to events_without_ride_id on every call. *)
C9_NoRideIdExcluded ==
    returned # <<>> =>
        LET without == Outcome(ConsolidateEvents(WithRideId(input0), FreshMetrics))
        IN  /\ returned[1].raised = without.raised
            /\ returned[1].map = without.map
            /\ returned[1].raised = "none" =>
                   DOMAIN returned[1].map = {input0[i].ride_id : i \in 1..Len(input0)} \ {""}
            /\ \A i \in 1..Len(input0) : input0[i].ride_id = "" => all_events[i] = input0[i]
            /\ metrics.events_without_ride_id = Len(returned) * NumWithoutRideId(input0)

\* A list with a fragment without ride_id next to two fragments of one event has
\* been consolidated.
C9_Witness ==
    /\ FirstReturned
    /\ NumWithoutRideId(input0) >= 1
    /\ \E id \in DOMAIN returned[1].map : Cardinality(GroupOf(input0, id)) >= 2

\* The rows of a document whose loop body ends without an exception.
GoodRows(rows) == SelectSeq(rows, LAMBDA r : r.span # "missing" /\ r.location # "details_no_td")

(* C10: for a document with n calendar rows extract_event_data returns without
   raising whatever is malformed in a row; each row gives one record, in document
   order, or adds 1 to event_extraction_errors, so len(result) + errors = n, and
   the records of the other rows are the ones they give without the bad row. *)
C10_RowErrorsIsolated ==
    extracted # <<>> =>
        /\ extracted[1].raised = "none"
        /\ Len(extracted[1].events) + metrics.event_extraction_errors = Len(document)
        /\ extracted[1].events =
               [i \in 1..Len(GoodRows(document)) |-> RowRecord(GoodRows(document)[i])]

\* The rows _extract_details reports as past events: a details tr without table
\* beside a "* Results *" span, or a table with a results link in some tr.
IsPastRow(row) ==
    \/ row.details.tr = "no_table" /\ row.details.marker
    \/ row.details.tr = "table"
         /\ \E k \in 1..Len(row.details.rows) : row.details.rows[k] = "Results"

\* The record the one-row document gave.
RowEmitted == extracted # <<>> /\ extracted[1].raised = "none" /\ Len(extracted[1].events) = 1

(* C11: whenever _extract_details reports is_past for a row, the distances it
   returns are empty, whatever the order of the Distances rows and the
   results-link rows and whether or not a details table exists; the record the
   driver emits for the row has distances == [], is_multi_day_event = false,
   is_pioneer_ride = false, ride_days = 1 and date_end = date_start. *)
C11_PastHasNoDistances ==
    \A i \in 1..Len(document) :
        LET row == document[i]
            d == ExtractDetails(row)
        IN  /\ d.is_past <=> IsPastRow(row)
            /\ d.is_past => d.distances = <<>>
            /\ (d.is_past /\ RowEmitted) =>
                   LET r == extracted[1].events[1]
                   IN  /\ r.distances = Some(<<>>)
                       /\ r.is_multi_day_event = Some(FALSE)
                       /\ r.is_pioneer_ride = Some(FALSE)
                       /\ r.ride_days = Some(1)
                       /\ r.date_end = r.date_start

\* A record was emitted for a row whose table holds a Distances row before the
\* results link.
C11_Witness ==
    /\ RowEmitted
    /\ document[1].details.rows = <<"Distances", "Results">>
    /\ document[1].date # None

\* The distinct non-null dates of the distances of a record.
DistanceDates(r) ==
    {DistanceList(r)[k].date[1] :
        k \in {j \in 1..Len(DistanceList(r)) : DistanceList(r)[j].date # None}}

\* The flags of record r are the ones its distance dates give.
FlagsFollowDistances(r) ==
    LET dates == DistanceDates(r)
    IN  IF Cardinality(dates) <= 1
        THEN /\ r.is_multi_day_event = Some(FALSE)
             /\ r.ride_days = Some(1)
             /\ r.date_end = r.date_start
        ELSE /\ r.is_multi_day_event = Some(TRUE)
             /\ r.date_end = Some(Latest(dates))
             /\ r.date_start # None
             /\ r.ride_days =
                    Some(CalendarDay(Latest(dates)) - CalendarDay(r.date_start[1]) + 1)
             /\ r.is_pioneer_ride = Some(r.ride_days[1] >= 3)

(* C12: for every non-past fragment the driver emits, and for the consolidated
   record of an event made of that single fragment, the flags follow the distinct
   dates of its distances: at most one date gives is_multi_day_event = false,
   ride_days = 1 and date_end = date_start; two or more give is_multi_day_event =
   true, date_end = the latest date, ride_days = the days from date_start to
   date_end + 1 and is_pioneer_ride = (ride_days >= 3). *)
C12_FragmentClassified ==
    (RowEmitted /\ ~IsPastRow(document[1])) =>
        LET r == extracted[1].events[1]
            out == Outcome(ConsolidateEvents(<<r>>, FreshMetrics))
        IN  /\ FlagsFollowDistances(r)
            /\ out.raised = "none"
            /\ \A id \in DOMAIN out.map : FlagsFollowDistances(out.map[id])

\* The record holds a value for every required field.
HasRequiredFields(r) == \A f \in RequiredFields : Supplied(r, f) # None

\* The ride_days the record itself carries (1, the default, when it has none).
OwnRideDays(r) == IF r.ride_days = NoKey THEN 1 ELSE r.ride_days[1]

(* C13: validate_event_data rejects a record on the pioneer rule only when
   is_pioneer_ride is true and the record's own ride_days is < 3; a record with
   is_multi_day_event = true, ride_days >= 3, is_pioneer_ride = true and every
   required field is validated and appears in the result of create_final_output. *)
C13_PioneerRecordsValidated ==
    final_output # <<>> =>
        \A k \in 1..Len(consolidated_events) :
            LET r == consolidated_events[k]
            IN  /\ "is_pioneer_ride" \in EventDataModel(r).errors =>
                       (r.is_pioneer_ride = Some(TRUE) /\ OwnRideDays(r) < 3)
                /\ (/\ r.is_multi_day_event = Some(TRUE)
                    /\ OwnRideDays(r) >= 3
                    /\ r.is_pioneer_ride = Some(TRUE)
                    /\ HasRequiredFields(r)) =>
                       FileName(SourceName, r.ride_id) \in DOMAIN final_output[1]

\* The records of the input map that validation rejects.
Rejected(items) == {k \in 1..Len(items) : ValidateEventData(items[k]) = None}

(* C14: create_final_output returns for every map; each record of the map either
   passes validation and is in the result under '<source lower-cased>_<ride_id>.json',
   or is absent from the result and adds 1 to invalid_events_skipped;
   len(result) + skipped = len(input), and no two ride_ids share a key. *)
C14_FinalOutputPartitions ==
    final_output # <<>> =>
        LET out == final_output[1]
            items == consolidated_events
        IN  /\ \A k \in 1..Len(items) :
                   LET key == [source |-> "aerc", ride_id |-> items[k].ride_id]
                   IN  IF k \in Rejected(items) THEN key \notin DOMAIN out
                       ELSE key \in DOMAIN out /\ out[key] = ValidateEventData(items[k])[1]
            /\ metrics.invalid_events_skipped = Cardinality(Rejected(items))
            /\ Cardinality(DOMAIN out) + metrics.invalid_events_skipped = Len(items)
            /\ \A key \in DOMAIN out :
                   Cardinality({k \in 1..Len(items) : items[k].ride_id = key.ride_id}) = 1

\* A map of three records was formatted: one was dropped and two were kept.
C14_Witness ==
    /\ final_output # <<>>
    /\ Len(consolidated_events) = 3
    /\ Cardinality(Rejected(consolidated_events)) = 1
    /\ Cardinality(DOMAIN final_output[1]) = 2

\* The city, state and country extract_city_state_country gives for the location
\* text of a row: "Ridgecrest, CA", "Fairgrounds, Brandon, MB", or none.
HeuristicPlace(row) ==
    CASE row.location = "jumpy" ->
            [city |-> Some(<<"Ridgecrest">>), state |-> Some(<<"CA">>), country |-> "USA"]
      [] row.location = "details" ->
            [city |-> Some(<<"Brandon">>), state |-> Some(<<"MB">>), country |-> "Canada"]
      [] OTHER -> [city |-> None, state |-> None, country |-> "USA"]

\* The rows whose enrichment call raised or returned nothing.
Unenriched(row) == row.llm.outcome \in LlmFailures \cup {"nodata"}

(* C16: an enrichment call that raises (any exception) or returns nothing never
   makes extract_event_data raise and never costs a fragment: the row's record is
   emitted with city, state, country and location_name as the location heuristic
   gives them and address and zip_code None, and the other rows give their
   records as usual. *)
C16_EnrichmentFailsOpen ==
    extracted # <<>> =>
        /\ extracted[1].raised # "none" =>
               \E i \in 1..Len(document) :
                   document[i].span # "missing" /\ document[i].location = "details_no_td"
        /\ extracted[1].raised = "none" =>
               /\ Len(extracted[1].events) = Len(GoodRows(document))
               /\ \A i \in 1..Len(GoodRows(document)) :
                      LET row == GoodRows(document)[i]
                          r == extracted[1].events[i]
                      IN  Unenriched(row) =>
                              /\ r.city = HeuristicPlace(row).city
                              /\ r.state = HeuristicPlace(row).state
                              /\ r.country = HeuristicPlace(row).country
                              /\ r.location_name = LocationName(row)
                              /\ r.address = None
                              /\ r.zip_code = None
                              /\ r.ride_id = ExtractRideId(row)

\* A document whose first row's enrichment raised and whose second row's
\* enrichment returned data gave both records.
C16_Witness ==
    /\ extracted # <<>>
    /\ extracted[1].raised = "none"
    /\ Len(document) >= 2
    /\ document[1].llm.outcome \in LlmFailures
    /\ document[2].llm.outcome = "data"
    /\ Len(extracted[1].events) = Len(document)

\* A request of the k-th scrape failed.
RequestFailed(k) == \E j \in 1..Len(scraped[k].requests) : ~scraped[k].requests[j].ok

(* C17: when a request scrape(url) depends on fails, the calendar-page GET or
   the event-HTML POST, scrape raises the download-failure error and returns no
   result: it never returns an event map. *)
C17_TransportFailureRaises ==
    \A k \in 1..Len(scraped) :
        RequestFailed(k) =>
            /\ scraped[k].raised = "HTMLDownloadError"
            /\ scraped[k].result = None

\* The j-th scrape fetched everything it asked for and returned its events.
ScrapeSucceeded(j) ==
    /\ scraped[j].raised = "none"
    /\ ~RequestFailed(j)
    /\ scraped[j].page # ""
    /\ scraped[j].result # None

(* C18: the fetches of scrape() go through the cache: once a scrape of a URL has
   fetched its pages, a later scrape of the same URL on the same scraper, within
   the TTL, performs no network request. *)
C18_SecondScrapeFromCache ==
    \A j, k \in 1..Len(scraped) :
        (j < k /\ scraped[j].url = scraped[k].url /\ ScrapeSucceeded(j)) =>
            scraped[k].requests = <<>>

(* C15: in every run of main, with the sample file or a live URL, each dict
   passed to insert_or_update_event is what validate_event_data returned for a
   consolidated record of the run: no record that was not validated, and none
   that validation rejects, reaches the database. *)
C15_OnlyValidatedPersisted ==
    \A k \in 1..Len(runs) :
        \A data \in runs[k].db_calls :
            \E i \in 1..Len(runs[k].consolidated) :
                ValidateEventData(runs[k].consolidated[i]) = Some(data)

(* C20: two runs of extraction, consolidation and output formatting on the same
   document, in one interpreter or in two, give the same ride_id for every row
   and the same output keys, also for a row whose title has neither tag nor
   onclick id; and every emitted ride_id is non-empty. *)
C20_DeterministicIds ==
    /\ \A j, k \in 1..Len(runs) :
           (runs[j].mode = "sample" /\ runs[k].mode = "sample") =>
               /\ runs[j].ride_ids = runs[k].ride_ids
               /\ runs[j].keys = runs[k].keys
    /\ \A k \in 1..Len(runs) :
           \A i \in 1..Len(runs[k].ride_ids) : runs[k].ride_ids[i] # ""

\* The responses that are a content-policy block, an API error body or malformed
\* JSON.
Definitive == {"blocked", "error_body", "text_not_json", "body_not_json"}

\* The first k responses are transport failures.
TransportUpTo(k) == \A i \in 1..k : llm_responses[i] = "transport"

(* C19: with an API key and LLM_MAX_RETRIES = N >= 1, extract_address_from_html
   sends at most N requests; it stops at the first successful response and
   returns its data; a content-policy block, an API error body or malformed JSON
   costs exactly one request and raises LLMContentError or LLMJsonParsingError;
   k requests after transport failures mean k - 1 sleeps; N transport failures
   raise LLMAPIError.  Without an API key it sends no request and returns None. *)
C19_LlmRequestCount ==
    llm_call # <<>> =>
        LET c == llm_call[1]
            N == llm_settings.max_retries
        IN  /\ ~llm_settings.api_key => (c.requests = 0 /\ c.outcome = "nodata")
            /\ (llm_settings.api_key /\ llm_settings.api_url /\ N >= 1) =>
                   /\ c.requests <= N
                   /\ \A k \in 1..N :
                          (TransportUpTo(k - 1) /\ llm_responses[k] = "success") =>
                              (c.requests = k /\ c.outcome = "data" /\ c.sleeps = k - 1)
                   /\ llm_responses[1] \in Definitive =>
                          /\ c.requests = 1
                          /\ c.outcome \in {"LLMContentError", "LLMJsonParsingError"}
                   /\ TransportUpTo(c.requests - 1) => c.sleeps = c.requests - 1
                   /\ TransportUpTo(N) => (c.requests = N /\ c.outcome = "LLMAPIError")

\* What the tests expect for a city and a state code.
ExpectedLocation(city, st) ==
    CityStateCountry(Some(city), Some(<<st>>),
                     IF st \in CanadianProvinces THEN "Canada" ELSE "USA")

(* C21: on the location shapes the tests enumerate ('City, ST', 'Venue, City, ST',
   'City ST', 'Venue, City ST', each also followed by ', Canada' or ' Canada')
   extract_city_state_country returns the city, the state code, and 'Canada'
   exactly when the code is a Canadian province; None and the empty string give
   (None, None, 'USA'). *)
C21_TestShapesParsed ==
    location_result # <<>> =>
        /\ location_input[1] \in {None, Some(<<>>)} =>
              location_result[1] = CityStateCountry(None, None, "USA")
        /\ \A city \in Cities, st \in StateCodes :
              (location_input[1] # None /\ location_input[1][1] \in TestShapes(city, st)) =>
                  location_result[1] = ExpectedLocation(city, st)

\* The positions of the anchors with an href whose text has the category keyword.
WebsiteAnchors(row) == {i \in 1..Len(row) : row[i].href # None /\ HasWebsite(row[i].text)}

FlyerAnchors(row) == {i \in 1..Len(row) : row[i].href # None /\ HasEntryFlyer(row[i].text)}

\* The href of the first of the anchors at positions S, None when there is none.
FirstHref(row, S) ==
    IF S = {} THEN None ELSE row[CHOOSE i \in S : \A j \in S : i <= j].href

(* C22: for each category (website; entry/flyer) _extract_website_flyer returns
   the href of the first anchor of the fragment, in document order, that has an
   href and whose text contains the category keyword. *)
C22_FirstLinkWins ==
    link_result # <<>> =>
        /\ link_result[1].website_url = FirstHref(link_row[1], WebsiteAnchors(link_row[1]))
        /\ link_result[1].flyer_url = FirstHref(link_row[1], FlyerAnchors(link_row[1]))

\* The text has the word at positions i, i + 1, ...
HasWords(text, ws) ==
    \E i \in 1..Len(text) :
        /\ i + Len(ws) - 1 <= Len(text)
        /\ \A k \in 1..Len(ws) : text[i + k - 1] = ws[k]

(* C23: _determine_event_type returns competitive_trail when the text contains
   'competitive trail' or 'ctc'; otherwise limited_distance only when it contains
   'limited distance' or a standalone 'ld' token; otherwise endurance, also when
   'ld' occurs only inside a longer word such as 'old'. *)
C23_EventTypeByKeyword ==
    type_result # <<>> =>
        type_result[1] =
            IF HasWords(type_text, <<<<"c", "o", "m", "p", "e", "t", "i", "t", "i", "v", "e">>, <<"t", "r", "a", "i", "l">>>>) \/ HasWords(type_text, <<CTC>>)
            THEN "competitive_trail"
            ELSE IF HasWords(type_text, <<<<"l", "i", "m", "i", "t", "e", "d">>, <<"d", "i", "s", "t", "a", "n", "c", "e">>>>) \/ HasWords(type_text, <<LD>>)
            THEN "limited_distance"
            ELSE "endurance"

(* C24: consolidate_events does not modify its input: after a call every
   fragment of all_events has the keys and values it had before the call. *)
C24_InputUnmodified == returned # <<>> => all_events = input0

(* C25: every record of create_final_output's result has ride_days >= 1,
   ride_days = 1 exactly when is_multi_day_event is false, and is_pioneer_ride
   only with ride_days >= 3, also when the input record omits some of the three
   fields and receives the model's defaults. *)
C25_SchemaInvariants ==
    final_output # <<>> =>
        \A key \in DOMAIN final_output[1] :
            LET event == final_output[1][key]
            IN  /\ event.ride_days[1] >= 1
                /\ (event.ride_days[1] = 1) <=> ~event.is_multi_day_event[1]
                /\ event.is_pioneer_ride[1] => event.ride_days[1] >= 3

\* The calls before the one being made that stored content for url and whose
\* entry has not expired.
StoredCalls(url) ==
    {i \in 1..Len(fetched) :
        /\ fetched[i].url = url
        /\ fetched[i].raised = "none"
        /\ fetched[i].requests # <<>>
        /\ clock - fetched[i].at < CacheTtl}

\* A get_html call and the state it was made in.
C26_Call ==
    fetched' # fetched =>
        LET call == fetched'[Len(fetched')]
            live == LiveCache(cache, stored_at, clock)
            before == StoredCalls(call.url)
        IN  /\ (call.requests # <<>>) <=> (call.url \notin DOMAIN live)
            /\ before # {} =>
                  /\ call.requests = <<>>
                  /\ call.raised = "none"
                  /\ call.html = fetched[CHOOSE i \in before : \A j \in before : j <= i].html
            /\ (call.requests # <<>> /\ ~call.requests[1].ok) =>
                  /\ cache' = cache
                  /\ stored_at' = stored_at
                  /\ metrics'.html_download_errors = metrics.html_download_errors + 1
                  /\ call.raised = "HTMLDownloadError"

(* C26: get_html(url) sends a request exactly when the cache holds no unexpired
   entry for url: after a successful get_html(url) every later call within the
   TTL returns the same content without a request, whatever the content; a
   failed request leaves the cache unchanged, increments html_download_errors
   and raises HTMLDownloadError. *)
C26_RequestIffNotCached == [][C26_Call]_vars

\* The rows of the store with the key of the event.
RowsOf(event_data) ==
    {i \in 1..Len(store) : Matches(store[i], event_data.source, event_data.ride_id)}

\* The calls that returned.
Returned(calls) == {i \in 1..Len(calls) : calls[i].raised = "none"}

SameKey(a, b) == a.source = b.source /\ a.ride_id = b.ride_id

\* The k-th call is the last call that returned for its key.
LastForKey(k) ==
    /\ k \in Returned(upserts)
    /\ \A j \in Returned(upserts) :
          (j > k) => ~SameKey(upserts[j].event_data, upserts[k].event_data)

\* The k-th call is the first call that returned for its key.
FirstForKey(k) ==
    /\ k \in Returned(upserts)
    /\ \A j \in Returned(upserts) :
          (j < k) => ~SameKey(upserts[j].event_data, upserts[k].event_data)

(* C27: insert_or_update_event is an upsert keyed by (source, ride_id): a call
   inserts when no row has the key and updates when one has, and increments
   exactly one of database_inserts and database_updates; after any sequence of
   calls the store holds at most one row per key, with the values of the last
   call for the key. *)
C27_UpsertByKey ==
    /\ \A k \in Returned(upserts) :
          upserts[k].op = IF FirstForKey(k) THEN "insert" ELSE "update"
    /\ metrics.database_inserts =
          Cardinality({k \in Returned(upserts) : upserts[k].op = "insert"})
    /\ metrics.database_updates =
          Cardinality({k \in Returned(upserts) : upserts[k].op = "update"})
    /\ \A event_data \in DbEvents : Cardinality(RowsOf(event_data)) <= 1
    /\ Len(store) = Cardinality({<<upserts[k].event_data.source,
                                   upserts[k].event_data.ride_id>> :
                                     k \in Returned(upserts)})
    /\ \A k \in 1..Len(upserts) :
          LastForKey(k) =>
              GetEvent(store, upserts[k].event_data.source,
                       upserts[k].event_data.ride_id) = Some(upserts[k].event_data)

\* A key was inserted and then updated with other values.
C27_Witness ==
    \E k \in 1..Len(upserts) :
        /\ LastForKey(k)
        /\ upserts[k].op = "update"
        /\ \E j \in Returned(upserts) :
              /\ j < k
              /\ upserts[j].op = "insert"
              /\ SameKey(upserts[j].event_data, upserts[k].event_data)
              /\ upserts[j].event_data # upserts[k].event_data

(* C28: validate_database_operation reports success only when the operation took
   effect: for 'insert', 'update' and 'insert_or_update' only if a stored record
   exists for (source, ride_id) and its fields equal the expected ones, for
   'delete' only if no stored record exists. *)
C28_SuccessMeansEffect ==
    (validated # <<>> /\ validated[1].success) =>
        LET v == validated[1]
            stored == GetEvent(store, v.event_data.source, v.event_data.ride_id)
        IN  IF v.expected_operation = "delete" THEN stored = None
            ELSE stored = Some(v.event_data)

\* validate_metrics: the first consistency check finds no discrepancy.
MetricsConsistent(m) == m.initial_events - m.multi_day_events = m.final_events

\* A sample run that reached the database loop with every fragment carrying a
\* ride_id and no record rejected.
CleanRun(run) ==
    /\ run.mode = "sample"
    /\ run.raised = "none"
    /\ run.metrics.initial_events >= 1
    /\ run.metrics.events_without_ride_id = 0
    /\ run.metrics.invalid_events_skipped = 0

(* C29: after consolidate_events followed by create_final_output on a fresh
   scraper, with no fragment lacking a ride_id and no record rejected,
   initial_events - multi_day_events = final_events, whatever the number of
   fragments per event. *)
C29_MetricsConsistent ==
    \A k \in 1..Len(runs) : CleanRun(runs[k]) => MetricsConsistent(runs[k].metrics)

\* The state of a record is one of the Canadian province codes.
ProvinceState(e) == e.state # None /\ InCanadianProvinces(e.state[1])

(* C30: in every record extract_event_data emits, whether or not the enrichment
   supplied the city or the state, a state that is a Canadian province code
   comes with the country 'Canada', and the country 'Canada' comes with a state
   that is a Canadian province code. *)
C30_StateCountryConsistent ==
    extracted # <<>> =>
        \A k \in 1..Len(extracted[1].events) :
            ProvinceState(extracted[1].events[k])
                <=> extracted[1].events[k].country = "Canada"

====
